----------------------------- MODULE HttpProofs -----------------------------
(***************************************************************************)
(* Proofs about HttpParser, for requests of any text: the invariant is     *)
(* inductive, and it implies that a request with its whole header is       *)
(* parsed as it was meant, and that a part of one without the end of the   *)
(* header is not parsed to an end.                                         *)
(*                                                                         *)
(* And about Http, for responses of any number and any text: what a client *)
(* finds in the stream is what was sent, by an induction over numbers for  *)
(* the text of Content-Length and for what is in front of a response.      *)
(***************************************************************************)
EXTENDS HttpParser, Http, SequenceTheorems, WellFoundedInduction, TLAPS


-----------------------------------------------------------------------------
(* Characters, texts and ends of lines.                                    *)

LEMMA Characters ==
    /\ CR # LF /\ CR # SP /\ CR # ":" /\ CR # "." /\ CR # NUL /\ CR \notin Digits
    /\ LF # SP /\ LF # ":" /\ LF # NUL /\ SP # ":" /\ SP # NUL
    /\ "." \notin Digits /\ "." # NUL /\ ":" # NUL /\ HTTP # NUL
BY DEF CR, LF, SP, NUL, HTTP, Digits

LEMMA SubstrType ==
    ASSUME ParserTypeOK, NEW from \in Nat, NEW to \in Int, to <= Len(request)
    PROVE  Substr(from, to) \in Seq(Alphabet)
BY DEF ParserTypeOK, Substr

LEMMA AtPlaces ==
    ASSUME ParserTypeOK, NEW c, c # NUL, NEW k \in Nat
    PROVE  k \in At(c) <=> Char(k) = c
BY DEF At, Char, ParserTypeOK

\* The end of a line is inside the string.
LEMMA EndPlaces ==
    ASSUME ParserTypeOK
    PROVE  /\ \A k \in Nat : k \in Ends <=> IsLineEnd(k)
           /\ \A k \in Nat : IsLineEnd(k) => k + 1 < Len(request)
           /\ Ends \subseteq Nat
<1>1. \A k \in Nat : k \in At(CR) <=> Char(k) = CR
  BY AtPlaces, Characters
<1>2. \A k \in Nat : IsLineEnd(k) => k + 1 \in At(LF)
  BY AtPlaces, Characters DEF IsLineEnd
<1>3. \A c : At(c) \subseteq 0 .. Len(request) - 1
  BY DEF At
<1>4. Len(request) \in Nat
  BY DEF ParserTypeOK
<1> QED
  BY <1>1, <1>2, <1>3, <1>4 DEF Ends, IsLineEnd

-----------------------------------------------------------------------------
(* The lines of a header.                                                  *)

\* Where the line behind a ends, Parse sees it, and nowhere before.
LEMMA LineEndsOnce ==
    ASSUME ParserTypeOK,
           NEW end \in Ends, NEW last \in Ends, AreFields(end, last),
           NEW a \in Ends, NEW b \in Ends, end <= a, b <= last, a < b,
           \A k \in a + 1 .. b - 1 : ~IsLineEnd(k)
    PROVE  EndsAt(b) /\ \A k \in a + 2 .. b - 1 : ~EndsAt(k)
<1>1. a \in Nat /\ b \in Nat /\ end \in Nat /\ last \in Nat
  BY EndPlaces
<1>2. Char(b) = CR /\ Char(b + 1) = LF /\ Char(a + 1) = LF
  BY EndPlaces, <1>1 DEF IsLineEnd
<1>3. ASSUME NEW k \in a + 2 .. b - 1, EndsAt(k)
      PROVE  FALSE
  <2>1. k \in end .. last + 1 /\ k + 1 \in end .. last + 1 /\ (k + 1) - 1 = k
    BY <1>1, <1>3
  <2>2. ~IsLineEnd(k)
    BY <1>1, <1>3
  <2>3. Char(k) # CR
    BY <2>1, <2>2 DEF AreFields
  <2>4. Char(k + 1) # LF
    BY <2>1, <2>2 DEF AreFields
  <2> QED
    BY <1>3, <2>3, <2>4 DEF EndsAt
<1> QED
  BY <1>2, <1>3 DEF EndsAt

\* A line of the header is a field, and ends where the header does or before.
LEMMA LineIsField ==
    ASSUME ParserTypeOK,
           NEW end \in Ends, NEW last \in Ends, AreFields(end, last),
           NEW a \in Ends, end <= a, a < last
    PROVE  \E b \in Ends : \E c \in At(":") : b <= last /\ IsField(a, c, b)
<1>1. PICK b \in Ends : \E c \in At(":") : IsField(a, c, b)
  BY DEF AreFields
<1>2. a \in Nat /\ b \in Nat /\ last \in Nat /\ IsLineEnd(last)
  BY EndPlaces
<1>3. b <= last
  BY <1>1, <1>2 DEF IsField
<1> QED
  BY <1>1, <1>3

\* One field more.
LEMMA FieldsGrow ==
    ASSUME ParserTypeOK,
           NEW a \in Ends, NEW b \in Ends, NEW c \in At(":"), IsField(a, c, b)
    PROVE  /\ FieldsTo(b) = FieldsTo(a) \cup {<<a, c, b>>}
           /\ \A f \in FieldsTo(a) : f[3] < b
<1>1. /\ a \in Nat /\ b \in Nat /\ c \in Nat /\ a < c /\ c < b
      /\ IsLineEnd(a) /\ IsLineEnd(b) /\ Char(c) = ":"
      /\ \A k \in a + 1 .. b - 1 : ~IsLineEnd(k)
  <2>1. c \in Nat
    BY DEF At
  <2> QED
    BY <2>1, EndPlaces DEF IsField
<1>2. ASSUME NEW f \in FieldsTo(b), ~(f[3] <= a)
      PROVE  f = <<a, c, b>>
  <2>1. /\ f \in Ends \X At(":") \X Ends /\ f[3] <= b
        /\ IsField(f[1], f[2], f[3])
    BY <1>2 DEF FieldsTo
  <2>2. /\ f[1] \in Nat /\ f[2] \in Nat /\ f[3] \in Nat
        /\ IsLineEnd(f[1]) /\ IsLineEnd(f[3]) /\ f = <<f[1], f[2], f[3]>>
    <3>1. f[1] \in Ends /\ f[2] \in At(":") /\ f[3] \in Ends /\ f = <<f[1], f[2], f[3]>>
      BY <2>1
    <3>2. f[2] \in Nat
      BY <3>1 DEF At
    <3> QED
      BY <3>1, <3>2, EndPlaces
  <2>3. f[3] = b
    BY <1>1, <1>2, <2>1, <2>2
  <2>4. /\ f[1] < f[2] /\ f[2] < b /\ Char(f[2]) = ":"
        /\ \A k \in f[1] + 1 .. b - 1 : ~IsLineEnd(k)
    BY <2>1, <2>2, <2>3 DEF IsField
  <2>5. f[1] = a
    <3>1. ~(f[1] < a)
      BY <1>1, <2>2, <2>4
    <3>2. ~(f[1] > a)
      BY <1>1, <2>2, <2>4
    <3> QED
      BY <1>1, <2>2, <3>1, <3>2
  <2>6. f[2] = c
    <3>1. ~(f[2] < c)
      BY <1>1, <2>1, <2>2, <2>4, <2>5 DEF IsField, Free
    <3>2. ~(f[2] > c)
      BY <1>1, <2>1, <2>2, <2>4, <2>5 DEF IsField, Free
    <3> QED
      BY <1>1, <2>2, <3>1, <3>2
  <2> QED
    BY <2>2, <2>3, <2>5, <2>6
<1>3. ASSUME NEW f \in FieldsTo(a)
      PROVE  f \in FieldsTo(b) /\ f[3] < b
  <2>1. f \in Ends \X At(":") \X Ends /\ f[3] <= a /\ IsField(f[1], f[2], f[3])
    BY DEF FieldsTo
  <2>2. f[3] \in Nat
    BY <2>1, EndPlaces
  <2> QED
    BY <1>1, <2>1, <2>2 DEF FieldsTo
<1>4. <<a, c, b>> \in FieldsTo(b)
  BY <1>1 DEF FieldsTo
<1>5. ASSUME NEW f \in FieldsTo(b), f[3] <= a
      PROVE  f \in FieldsTo(a)
  BY <1>5 DEF FieldsTo
<1> QED
  BY <1>2, <1>3, <1>4, <1>5

\* The line of the request has no field.
LEMMA NoFieldsYet ==
    ASSUME ParserTypeOK, NEW s, NEW ed, NEW dot, NEW end \in Ends, IsRequestLine(s, ed, dot, end)
    PROVE  FieldsTo(end) = {}
<1>1. SUFFICES ASSUME NEW f \in FieldsTo(end) PROVE FALSE
  OBVIOUS
<1>2. /\ f[1] \in Ends /\ f[2] \in At(":") /\ f[3] \in Ends /\ f[3] <= end
      /\ IsField(f[1], f[2], f[3])
  BY DEF FieldsTo
<1>3. f[1] \in Nat /\ f[2] \in Nat /\ f[3] \in Nat /\ end \in Nat /\ Char(f[1]) = CR
  <2>1. f[2] \in Nat
    BY <1>2 DEF At
  <2> QED
    BY <1>2, <2>1, EndPlaces DEF IsLineEnd
<1>4. f[1] \in 0 .. end - 1
  BY <1>2, <1>3 DEF IsField
<1> QED
  BY <1>3, <1>4 DEF IsRequestLine, Free

-----------------------------------------------------------------------------
(* What the string says does not change while it is parsed.                *)

LEMMA SameCharacters ==
    ASSUME request' = request
    PROVE  /\ Len(request') = Len(request)
           /\ \A k : Char(k)' = Char(k)
           /\ \A k : IsLineEnd(k)' = IsLineEnd(k)
           /\ \A k : EndsAt(k)' = EndsAt(k)
           /\ \A c : At(c)' = At(c)
           /\ Ends' = Ends
           /\ \A from, to : Substr(from, to)' = Substr(from, to)
           /\ \A from, to, S : Free(from, to, S)' = Free(from, to, S)
           /\ \A from, to : OnlyDigits(from, to)' = OnlyDigits(from, to)
BY DEF Char, IsLineEnd, EndsAt, At, Ends, Substr, Free, OnlyDigits

LEMMA SameMeaning ==
    ASSUME request' = request
    PROVE  /\ \A a, c, b : IsField(a, c, b)' = IsField(a, c, b)
           /\ \A end, last : AreFields(end, last)' = AreFields(end, last)
           /\ \A s, ed, dot, end : IsRequestLine(s, ed, dot, end)' = IsRequestLine(s, ed, dot, end)
           /\ \A n : FieldsTo(n)' = FieldsTo(n)
           /\ \A f : Name(f)' = Name(f) /\ Value(f)' = Value(f)
           /\ \A f, F : IsLatest(f, F)' = IsLatest(f, F)
           /\ IsCut' = IsCut
<1>1. /\ \A k : Char(k)' = Char(k)
      /\ \A k : IsLineEnd(k)' = IsLineEnd(k)
      /\ \A c : At(c)' = At(c)
      /\ Ends' = Ends
      /\ \A from, to : Substr(from, to)' = Substr(from, to)
      /\ \A from, to, S : Free(from, to, S)' = Free(from, to, S)
      /\ \A from, to : OnlyDigits(from, to)' = OnlyDigits(from, to)
  BY SameCharacters
<1>2. \A a, c, b : IsField(a, c, b)' = IsField(a, c, b)
  BY <1>1 DEF IsField
<1>3. \A end, last : AreFields(end, last)' = AreFields(end, last)
  BY <1>1, <1>2 DEF AreFields
<1>4. \A s, ed, dot, end : IsRequestLine(s, ed, dot, end)' = IsRequestLine(s, ed, dot, end)
  BY <1>1 DEF IsRequestLine, Fits
<1>5. \A n : FieldsTo(n)' = FieldsTo(n)
  BY <1>1, <1>2 DEF FieldsTo
<1>6. \A f : Name(f)' = Name(f) /\ Value(f)' = Value(f)
  BY <1>1 DEF Name, Value
<1>7. \A f, F : IsLatest(f, F)' = IsLatest(f, F)
  BY <1>6 DEF IsLatest
<1>8. IsCut' = IsCut
  BY <1>1 DEF IsCut
<1> QED
  BY <1>2, <1>3, <1>4, <1>5, <1>6, <1>7, <1>8

\* The fields found stay found.
LEMMA FieldsStay ==
    ASSUME request' = request, field_info_' = field_info_, NEW n, HasFields(FieldsTo(n))
    PROVE  HasFields(FieldsTo(n))'
<1>1. /\ FieldsTo(n)' = FieldsTo(n)
      /\ \A f : Name(f)' = Name(f) /\ Value(f)' = Value(f)
      /\ \A f, F : IsLatest(f, F)' = IsLatest(f, F)
  BY SameMeaning
<1> QED
  BY <1>1 DEF HasFields

\* field_info_[field_] = info_ makes one field more of them, the latest.
LEMMA FieldFound ==
    ASSUME request' = request, NEW F, NEW g, HasFields(F),
           \A f \in F : f[3] < g[3], g[3] \in Int, \A f \in F : f[3] \in Int,
           field_info_' = WithField(Name(g), Value(g))
    PROVE  HasFields(F \cup {g})'
<1> DEFINE G == F \cup {g}
<1>1. /\ \A f : Name(f)' = Name(f) /\ Value(f)' = Value(f)
      /\ \A f, H : IsLatest(f, H)' = IsLatest(f, H)
  BY SameMeaning
<1>2. DOMAIN field_info_' = {Name(f) : f \in G}
  BY DEF HasFields, WithField
<1>3. ASSUME NEW f \in G, IsLatest(f, G)
      PROVE  field_info_'[Name(f)] = Value(f)
  <2>1. CASE f = g
    BY <2>1 DEF HasFields, WithField
  <2>2. CASE f # g
    <3>1. f \in F /\ IsLatest(f, F)
      BY <1>3, <2>2 DEF IsLatest
    <3>2. Name(g) # Name(f)
      BY <1>3, <3>1 DEF IsLatest
    <3>3. field_info_'[Name(f)] = field_info_[Name(f)]
      BY <3>1, <3>2 DEF HasFields, WithField
    <3> QED
      BY <3>1, <3>3 DEF HasFields
  <2> QED
    BY <2>1, <2>2
<1>4. (DOMAIN field_info_)' = {Name(f)' : f \in G}
  BY <1>1, <1>2
<1> QED
  BY <1>1, <1>3, <1>4 DEF HasFields

-----------------------------------------------------------------------------
(* Types.                                                                  *)

LEMMA TypesStay ==
    ASSUME ParserTypeOK, [ParserNext]_parserVars
    PROVE  ParserTypeOK'
<1> USE RequestsAssumption
<1>1. CASE Parse
  BY <1>1 DEF Parse, ParserTypeOK, first, line
<1>2. CASE FetchURL
  <2>1. PICK s \in At(SP), ed \in At(SP) : AreSpaces(s, ed) /\ url_' = Substr(s + 1, ed)
    BY <1>2 DEF FetchURL
  <2>2. s + 1 \in Nat /\ ed \in Int /\ ed <= Len(request)
    BY DEF At, ParserTypeOK
  <2>3. url_' \in Seq(Alphabet)
    BY <2>1, <2>2, SubstrType
  <2>4. method_' \in {"Get", "Post", "Other"}
    BY <1>2 DEF FetchURL, Method
  <2> QED
    BY <1>2, <2>3, <2>4 DEF FetchURL, ParserTypeOK, line
<1>3. CASE FetchVersion
  <2>1. PICK head \in At(HTTP), dot \in At("."), end \in 1 .. Len(request) :
           IF Fits(head, dot, end)
           THEN /\ version' = <<Substr(head + 1, dot), Substr(dot + 1, end)>>
                /\ now_pos' = end
                /\ loc' = "lines"
           ELSE /\ loc' = "overflow"
                /\ UNCHANGED <<version, now_pos>>
    BY <1>3 DEF FetchVersion
  <2>2. head + 1 \in Nat /\ dot \in Nat /\ dot + 1 \in Nat /\ dot <= Len(request)
        /\ end \in Nat /\ end <= Len(request)
    BY DEF At, ParserTypeOK
  <2>3. Substr(head + 1, dot) \in Seq(Alphabet)
    BY <2>2, SubstrType
  <2>4. Substr(dot + 1, end) \in Seq(Alphabet)
    BY <2>2, SubstrType
  <2> QED
    BY <1>3, <2>1, <2>2, <2>3, <2>4 DEF FetchVersion, ParserTypeOK
<1>4. CASE ReadName
  <2>1. PICK p \in now_pos .. Len(request) - 1 :
           field_' = <<Substr(st, p)>> /\ st' = p + 2 /\ now_pos' = p + 2
    BY <1>4 DEF ReadName
  <2>2. p \in Nat /\ p <= Len(request) /\ st \in Nat
    BY DEF ParserTypeOK
  <2>3. Substr(st, p) \in Seq(Alphabet)
    BY <2>2, SubstrType
  <2> QED
    BY <1>4, <2>1, <2>2, <2>3 DEF ReadName, ParserTypeOK, first
<1>5. CASE EndLine
  <2>1. PICK p \in now_pos .. Len(request) - 1 :
           /\ now_pos' = p
           /\ field_info_' = IF field_ = <<>> THEN field_info_
                             ELSE WithField(field_[1], Substr(st, p))
    BY <1>5 DEF EndLine
  <2>2. p \in Nat /\ p <= Len(request) /\ st \in Nat
    BY DEF ParserTypeOK
  <2>3. Substr(st, p) \in Seq(Alphabet)
    BY <2>2, SubstrType
  <2>4. field_ # <<>> => field_[1] \in Seq(Alphabet)
    BY DEF ParserTypeOK
  <2>5. /\ DOMAIN field_info_' \subseteq Seq(Alphabet)
        /\ field_info_' \in [DOMAIN field_info_' -> Seq(Alphabet)]
    <3>1. CASE field_ = <<>>
      BY <2>1, <3>1 DEF ParserTypeOK
    <3>2. CASE field_ # <<>>
      BY <2>1, <2>3, <2>4, <3>2 DEF ParserTypeOK, WithField
    <3> QED
      BY <3>1, <3>2
  <2> QED
    BY <1>5, <2>1, <2>2, <2>5 DEF EndLine, ParserTypeOK, first
<1>6. CASE FetchData
  <2>1. now_pos + 4 \in Nat /\ Len(request) \in Int /\ Len(request) <= Len(request)
    BY DEF ParserTypeOK
  <2>2. Substr(now_pos + 4, Len(request)) \in Seq(Alphabet)
    BY <2>1, SubstrType
  <2> QED
    BY <1>6, <2>1, <2>2 DEF FetchData, ParserTypeOK, first
<1>7. CASE BeginLine
  BY <1>7 DEF BeginLine, ParserTypeOK, first
<1>8. CASE NoURL \/ NoVersion \/ NoMoreLines \/ RunPastEnd \/ NextLine \/ LookPastEnd
  BY <1>8 DEF NoURL, NoVersion, NoMoreLines, RunPastEnd, NextLine, LookPastEnd,
     ParserTypeOK, first, line
<1>9. CASE UNCHANGED parserVars
  BY <1>9 DEF parserVars, ParserTypeOK, first, line
<1> QED
  BY <1>1, <1>2, <1>3, <1>4, <1>5, <1>6, <1>7, <1>8, <1>9 DEF ParserNext

-----------------------------------------------------------------------------
(* A request with its whole header, step by step.                          *)

Meant(s, ed, dot, end, last) ==
    /\ end \in Ends /\ last \in Ends /\ AreFields(end, last)
    /\ s \in At(SP) /\ ed \in At(SP) /\ dot \in At(".")
    /\ IsRequestLine(s, ed, dot, end)

LEMMA Places ==
    ASSUME ParserTypeOK, NEW s, NEW ed, NEW dot, NEW end, NEW last, Meant(s, ed, dot, end, last)
    PROVE  /\ s \in Nat /\ ed \in Nat /\ dot \in Nat /\ end \in Nat /\ last \in Nat
           /\ Len(request) \in Nat
           /\ 0 < s /\ s < ed /\ ed + 1 < dot /\ dot < end /\ end < last
           /\ last + 3 < Len(request)
           /\ Char(s) = SP /\ Char(ed) = SP /\ Char(dot) = "." /\ Char(end) = CR
<1>1. end \in Nat /\ last \in Nat /\ IsLineEnd(end) /\ last + 2 + 1 < Len(request)
  BY EndPlaces DEF Meant, AreFields
<1>2. s \in Nat /\ ed \in Nat /\ dot \in Nat /\ Char(s) = SP /\ Char(ed) = SP /\ Char(dot) = "."
  BY DEF Meant, At
<1>3. 0 < s /\ s < ed /\ ed + 1 < dot /\ dot < end /\ end < last
  BY DEF Meant, IsRequestLine, AreFields
<1>4. Len(request) \in Nat
  BY DEF ParserTypeOK
<1> QED
  BY <1>1, <1>2, <1>3, <1>4 DEF IsLineEnd

\* The first two spaces are those around the URL.
LEMMA FetchURLFinds ==
    ASSUME ParserTypeOK, NEW s, NEW ed, NEW dot, NEW end, NEW last,
           Meant(s, ed, dot, end, last)
    PROVE  /\ AreSpaces(s, ed)
           /\ \A t, td \in At(SP) : AreSpaces(t, td) => t = s /\ td = ed
<1>1. /\ s \in Nat /\ ed \in Nat /\ 0 < s /\ s < ed /\ Char(s) = SP /\ Char(ed) = SP
  BY Places
<1>2. Free(0, s - 1, {SP}) /\ Free(s + 1, ed - 1, {SP})
  BY DEF Meant, IsRequestLine
<1>3. AreSpaces(s, ed)
  BY <1>1, <1>2 DEF AreSpaces, Free
<1>4. ASSUME NEW t \in At(SP), NEW td \in At(SP), AreSpaces(t, td)
      PROVE  t = s /\ td = ed
  <2>1. /\ t \in Nat /\ td \in Nat /\ Char(t) = SP /\ Char(td) = SP /\ 0 < t /\ t < td
        /\ Free(1, t - 1, {SP}) /\ Free(t + 1, td - 1, {SP})
    BY <1>4 DEF At, AreSpaces
  <2>2. t = s
    BY <1>1, <1>2, <2>1 DEF Free
  <2>3. td = ed
    BY <1>1, <1>2, <2>1, <2>2 DEF Free
  <2> QED
    BY <2>2, <2>3
<1> QED
  BY <1>3, <1>4

\* The version is behind the URL, and ends where the line does.
LEMMA FetchVersionFinds ==
    ASSUME ParserTypeOK, NEW s, NEW ed, NEW dot, NEW end, NEW last,
           Meant(s, ed, dot, end, last)
    PROVE  /\ ed + 1 \in At(HTTP) /\ IsHead(ed + 1) /\ dot \in At(".")
           /\ \A head \in At(HTTP), d \in At("."), e \in 1 .. Len(request) :
                IsHead(head) /\ IsDot(head, d) /\ IsEnd(d, e) =>
                    head = ed + 1 /\ d = dot /\ e = end /\ Fits(head, d, e)
           /\ \A head \in At(HTTP) : IsHead(head) => head = ed + 1
<1>1. /\ ed \in Nat /\ dot \in Nat /\ end \in Nat /\ ed + 1 < dot /\ dot < end
      /\ Char(dot) = "." /\ Char(end) = CR
  BY Places
<1>2. /\ Char(ed + 1) = HTTP /\ Free(0, ed, {HTTP})
      /\ OnlyDigits(ed + 2, dot - 1) /\ OnlyDigits(dot + 1, end - 1)
      /\ Fits(ed + 1, dot, end)
  BY DEF Meant, IsRequestLine
<1>3. ed + 1 \in At(HTTP) /\ IsHead(ed + 1)
  BY <1>1, <1>2, AtPlaces, Characters DEF IsHead, Free
<1>4. ASSUME NEW head \in At(HTTP), IsHead(head)
      PROVE  head = ed + 1
  <2>1. head \in Nat /\ Char(head) = HTTP /\ Free(0, head - 1, {HTTP})
    BY <1>4 DEF At, IsHead
  <2> QED
    BY <1>1, <1>2, <2>1 DEF Free
<1>5. ASSUME NEW head \in At(HTTP), NEW d \in At("."), NEW e \in 1 .. Len(request),
             IsHead(head), IsDot(head, d), IsEnd(d, e)
      PROVE  head = ed + 1 /\ d = dot /\ e = end /\ Fits(head, d, e)
  <2>1. head = ed + 1
    BY <1>4, <1>5
  <2>2. d \in Nat /\ Char(d) = "." /\ ed + 1 < d /\ Free(ed + 2, d - 1, {"."})
    BY <1>1, <1>5, <2>1 DEF At, IsDot
  <2>3. d = dot
    <3>1. ~(d < dot)
      BY <1>1, <1>2, <2>2, Characters DEF OnlyDigits
    <3>2. ~(dot < d)
      BY <1>1, <2>2 DEF Free
    <3> QED
      BY <1>1, <2>2, <3>1, <3>2
  <2>4. e \in Nat /\ dot < e /\ OnlyDigits(dot + 1, e - 1) /\ Char(e) \notin Digits
    BY <1>5, <2>3 DEF IsEnd, ParserTypeOK
  <2>5. e = end
    <3>1. ~(e < end)
      BY <1>1, <1>2, <2>4 DEF OnlyDigits
    <3>2. ~(end < e)
      BY <1>1, <2>4, Characters DEF OnlyDigits
    <3> QED
      BY <1>1, <2>4, <3>1, <3>2
  <2> QED
    BY <1>2, <2>1, <2>3, <2>5
<1> QED
  BY <1>3, <1>4, <1>5 DEF Meant

\* The next field is the one behind now_pos.
LEMMA BeginLineFinds ==
    ASSUME ParserTypeOK, NEW s, NEW ed, NEW dot, NEW end, NEW last,
           Meant(s, ed, dot, end, last), FoundSoFar(s, ed, dot, end, last), BeginLine
    PROVE  \E a, b \in Ends : \E c \in At(":") :
               end <= a /\ b <= last /\ IsField(a, c, b) /\ IsIn(a, c, b)'
<1>1. now_pos \in Ends /\ end <= now_pos /\ now_pos < last /\ HasFields(FieldsTo(now_pos))
  BY DEF BeginLine, FoundSoFar
<1>2. PICK b \in Ends, c \in At(":") : b <= last /\ IsField(now_pos, c, b)
  BY <1>1, LineIsField DEF Meant
<1>3. /\ request' = request /\ field_info_' = field_info_
      /\ field_' = <<>> /\ st' = now_pos + 2 /\ now_pos' = now_pos + 2
  BY DEF BeginLine
<1>4. HasFields(FieldsTo(now_pos)) => \A a : a = now_pos => HasFields(FieldsTo(a))'
  BY <1>3, FieldsStay
<1>5. \A a : a = now_pos => IsIn(a, c, b)'
  BY <1>1, <1>3, <1>4 DEF IsIn
<1>6. \A a : a = now_pos =>
        /\ a \in Ends /\ end <= a /\ IsField(a, c, b)
        /\ IsIn(a, c, b)'
  BY <1>1, <1>2, <1>5
<1> QED
  BY <1>2, <1>6

\* In the field with the colon at c, Parse finds its name, and then its end.
LEMMA ReadNameFinds ==
    ASSUME ParserTypeOK, NEW s, NEW ed, NEW dot, NEW end, NEW last,
           Meant(s, ed, dot, end, last),
           NEW a \in Ends, NEW b \in Ends, NEW c \in At(":"),
           end <= a, b <= last, IsField(a, c, b), IsIn(a, c, b), ReadName
    PROVE  IsIn(a, c, b)'
<1>1. PICK p \in now_pos .. Len(request) - 1 :
         /\ Passes(now_pos, p - 1) /\ IsColon(p)
         /\ field_' = <<Substr(st, p)>> /\ st' = p + 2 /\ now_pos' = p + 2
  BY DEF ReadName
<1>2. /\ field_ = <<>> /\ st = a + 2 /\ now_pos = a + 2 /\ Char(p) = ":"
      /\ HasFields(FieldsTo(a))
  BY <1>1 DEF IsColon, IsIn
<1>3. a \in Nat /\ c \in Nat /\ p \in Nat /\ a + 2 <= c /\ Char(c) = ":" /\ Free(a + 2, c - 1, {":"})
  BY <1>1, EndPlaces DEF At, IsField, ParserTypeOK
<1>4. p = c
  <2>1. ~(p < c)
    BY <1>1, <1>2, <1>3 DEF Free
  <2>2. ~(c < p)
    BY <1>1, <1>2, <1>3 DEF Passes, IsColon
  <2> QED
    BY <1>3, <2>1, <2>2
<1>5. request' = request /\ field_info_' = field_info_
  BY DEF ReadName
<1>6. HasFields(FieldsTo(a))'
  BY <1>2, <1>5, FieldsStay
<1>7. field_' = <<Substr(a + 2, c)>>' /\ st' = c + 2 /\ now_pos' = c + 2
  BY <1>1, <1>2, <1>4, <1>5, SameCharacters
<1> QED
  BY <1>6, <1>7 DEF IsIn

LEMMA EndLineFinds ==
    ASSUME ParserTypeOK, NEW s, NEW ed, NEW dot, NEW end, NEW last,
           Meant(s, ed, dot, end, last),
           NEW a \in Ends, NEW b \in Ends, NEW c \in At(":"),
           end <= a, b <= last, IsField(a, c, b), IsIn(a, c, b), EndLine
    PROVE  now_pos' = b /\ HasFields(FieldsTo(b))'
<1>1. PICK p \in now_pos .. Len(request) - 1 :
         /\ Passes(now_pos, p - 1) /\ EndsAt(p) /\ now_pos' = p
         /\ field_info_' = IF field_ = <<>> THEN field_info_
                           ELSE WithField(field_[1], Substr(st, p))
  BY DEF EndLine
<1>2. /\ a \in Nat /\ b \in Nat /\ c \in Nat /\ p \in Nat
      /\ a + 2 <= c /\ c + 1 < b /\ Char(c) = ":"
      /\ \A k \in a + 1 .. b - 1 : ~IsLineEnd(k)
  BY <1>1, EndPlaces DEF At, IsField, ParserTypeOK
<1>3. EndsAt(b) /\ \A k \in a + 2 .. b - 1 : ~EndsAt(k)
  BY <1>2, LineEndsOnce DEF Meant
<1>4. field_ = <<Substr(a + 2, c)>> /\ st = c + 2 /\ now_pos = c + 2
  <2>1. CASE field_ = <<>> /\ now_pos = a + 2
    <3>1. p > c
      BY <1>1, <1>2, <1>3, <2>1
    <3>2. IsColon(c) /\ c \in now_pos .. p - 1
      BY <1>2, <2>1, <3>1 DEF IsColon
    <3> QED
      BY <1>1, <3>2 DEF Passes
  <2> QED
    BY <2>1 DEF IsIn
<1>5. p = b
  <2>1. ~(p < b)
    BY <1>1, <1>2, <1>3, <1>4
  <2>2. ~(b < p)
    BY <1>1, <1>2, <1>3, <1>4 DEF Passes
  <2> QED
    BY <1>2, <2>1, <2>2
<1> DEFINE g == <<a, c, b>>
<1>6. field_info_' = WithField(Name(g), Value(g))
  BY <1>1, <1>4, <1>5 DEF Name, Value
<1>7. FieldsTo(b) = FieldsTo(a) \cup {g} /\ \A f \in FieldsTo(a) : f[3] < b
  BY FieldsGrow
<1>8. \A f \in FieldsTo(a) : f[3] \in Int
  BY EndPlaces DEF FieldsTo
<1>9. HasFields(FieldsTo(a)) /\ request' = request
  BY DEF IsIn, EndLine
<1> HIDE DEF g
<1>10. g[3] = b
  BY DEF g
<1>11. HasFields(FieldsTo(a) \cup {g})'
  <2> DEFINE F == FieldsTo(a)
  <2>1. F' = F
    BY <1>9, SameMeaning
  <2> HIDE DEF F
  <2> QED
    BY <1>2, <1>6, <1>7, <1>8, <1>9, <1>10, <2>1, FieldFound DEF F
<1>12. FieldsTo(b)' = (FieldsTo(a) \cup {g})'
  BY <1>7, <1>9, SameMeaning
<1>13. HasFields(FieldsTo(b))'
  BY <1>11, <1>12 DEF HasFields
<1> QED
  BY <1>1, <1>5, <1>13

\* Neither of the failures that look for what is missing can happen.
LEMMA NothingIsMissing ==
    ASSUME ParserTypeOK, NEW s, NEW ed, NEW dot, NEW end, NEW last,
           Meant(s, ed, dot, end, last), FoundSoFar(s, ed, dot, end, last)
    PROVE  ~(NoURL \/ NoVersion \/ NoMoreLines \/ RunPastEnd \/ LookPastEnd)
<1>1. ~NoURL
  BY FetchURLFinds DEF NoURL, Meant
<1>2. ~NoVersion
  <2>1. ed + 1 \in At(HTTP) /\ dot \in At(".") /\ ed + 1 < dot
    BY FetchVersionFinds, Places
  <2>2. \A head \in At(HTTP) : IsHead(head) => head = ed + 1
    BY FetchVersionFinds
  <2> QED
    BY <2>1, <2>2 DEF NoVersion
<1>3. ~NoMoreLines
  <2>1. loc = "lines" => now_pos \in Nat /\ now_pos < last
    BY EndPlaces DEF FoundSoFar
  <2> QED
    BY <2>1, Places DEF NoMoreLines
<1>4. ~RunPastEnd
  <2>1. SUFFICES ASSUME RunPastEnd PROVE FALSE
    OBVIOUS
  <2>2. PICK a \in Ends, b \in Ends, c \in At(":") :
          end <= a /\ b <= last /\ IsField(a, c, b) /\ IsIn(a, c, b)
    BY <2>1 DEF RunPastEnd, FoundSoFar
  <2>3. /\ a \in Nat /\ b \in Nat /\ c \in Nat /\ a + 2 <= c /\ c + 1 < b
        /\ \A k \in a + 1 .. b - 1 : ~IsLineEnd(k)
    BY <2>2, EndPlaces DEF At, IsField
  <2>4. EndsAt(b)
    BY <2>2, <2>3, LineEndsOnce DEF Meant
  <2>5. b + 1 < Len(request)
    BY <2>3, EndPlaces
  <2>6. now_pos \in Nat /\ now_pos <= b
    BY <2>2, <2>3 DEF IsIn
  <2> QED
    BY <2>1, <2>3, <2>4, <2>5, <2>6, Places DEF RunPastEnd, Passes
<1>5. ~LookPastEnd
  <2>1. loc = "lineEnd" => now_pos \in Nat /\ now_pos <= last
    BY EndPlaces DEF FoundSoFar
  <2> QED
    BY <2>1, Places DEF LookPastEnd
<1> QED
  BY <1>1, <1>2, <1>3, <1>4, <1>5

\* The first line.
LEMMA FirstLineFinds ==
    ASSUME ParserTypeOK, NEW s, NEW ed, NEW dot, NEW end, NEW last,
           Meant(s, ed, dot, end, last), FoundSoFar(s, ed, dot, end, last),
           StaysInside, FetchURL \/ FetchVersion
    PROVE  FoundSoFar(s, ed, dot, end, last)'
<1>1. CASE FetchURL
  <2>1. PICK t \in At(SP), td \in At(SP) : AreSpaces(t, td) /\ url_' = Substr(t + 1, td)
    BY <1>1 DEF FetchURL
  <2>2. t = s /\ td = ed
    BY <2>1, FetchURLFinds
  <2>3. request' = request /\ loc' = "version" /\ method_' = Method(Char(0))
    BY <1>1 DEF FetchURL
  <2>4. url_' = Substr(s + 1, ed)' /\ method_' = Method(Char(0))'
    BY <2>1, <2>2, <2>3, SameCharacters
  <2> QED
    BY <2>3, <2>4 DEF FoundSoFar, Failed, InFields
<1>2. CASE FetchVersion
  <2>1. PICK head \in At(HTTP), d \in At("."), e \in 1 .. Len(request) :
           /\ IsHead(head) /\ IsDot(head, d) /\ IsEnd(d, e)
           /\ IF Fits(head, d, e)
              THEN /\ version' = <<Substr(head + 1, d), Substr(d + 1, e)>>
                   /\ now_pos' = e
                   /\ loc' = "lines"
              ELSE /\ loc' = "overflow"
                   /\ UNCHANGED <<version, now_pos>>
    BY <1>2 DEF FetchVersion
  <2>2. head = ed + 1 /\ d = dot /\ e = end /\ Fits(head, d, e)
    BY <2>1, FetchVersionFinds
  <2>3. /\ request' = request /\ field_info_' = field_info_ /\ loc = "version"
        /\ method_' = method_ /\ url_' = url_
    BY <1>2 DEF FetchVersion
  <2>4. /\ loc' = "lines" /\ now_pos' = end
        /\ version' = <<Substr(ed + 2, dot), Substr(dot + 1, end)>>
    BY <2>1, <2>2, Places
  <2>5. HasFields(FieldsTo(end))'
    <3>1. FieldsTo(end) = {} /\ DOMAIN field_info_ = {}
      BY <2>3, NoFieldsYet DEF Meant, StaysInside
    <3>2. HasFields(FieldsTo(end))
      BY <3>1 DEF HasFields
    <3> QED
      BY <2>3, <3>2, FieldsStay
  <2>6. /\ end \in Ends' /\ end <= end /\ end < last
        /\ method_' = Method(Char(0))' /\ url_' = Substr(s + 1, ed)'
        /\ version' = <<Substr(ed + 2, dot), Substr(dot + 1, end)>>'
    BY <2>3, <2>4, SameCharacters, Places DEF Meant, FoundSoFar
  <2>7. (HasFields(FieldsTo(now_pos)))'
    BY <2>4, <2>5
  <2> QED
    BY <2>4, <2>6, <2>7 DEF FoundSoFar, Failed, InFields
<1> QED
  BY <1>1, <1>2

\* Between two lines.
LEMMA NextLineFinds ==
    ASSUME ParserTypeOK, NEW s, NEW ed, NEW dot, NEW end, NEW last,
           Meant(s, ed, dot, end, last), FoundSoFar(s, ed, dot, end, last),
           FetchData \/ NextLine
    PROVE  FoundSoFar(s, ed, dot, end, last)'
<1>1. /\ loc = "lineEnd" /\ request' = request /\ field_info_' = field_info_
      /\ method_' = method_ /\ url_' = url_ /\ version' = version
  BY DEF FetchData, NextLine, first
<1>2. /\ now_pos \in Ends /\ end < now_pos /\ now_pos <= last
      /\ HasFields(FieldsTo(now_pos))
      /\ method_ = Method(Char(0)) /\ url_ = Substr(s + 1, ed)
      /\ version = <<Substr(ed + 2, dot), Substr(dot + 1, end)>>
  BY <1>1 DEF FoundSoFar, InFields
<1>3. /\ method_' = Method(Char(0))' /\ url_' = Substr(s + 1, ed)'
      /\ version' = <<Substr(ed + 2, dot), Substr(dot + 1, end)>>'
      /\ Ends' = Ends
  BY <1>1, <1>2, SameCharacters
<1>4. \A n : HasFields(FieldsTo(n)) => HasFields(FieldsTo(n))'
  BY <1>1, FieldsStay
<1>5. now_pos \in Nat /\ end \in Nat /\ last \in Nat
  BY <1>2, EndPlaces, Places
<1>6. IsEmptyLine <=> IsLineEnd(now_pos + 2)
  BY <1>5 DEF IsEmptyLine, IsLineEnd
<1>7. IsEmptyLine <=> now_pos = last
  <2>1. now_pos < last => ~IsLineEnd(now_pos + 2)
    BY <1>2, <1>5 DEF Meant, AreFields
  <2>2. IsLineEnd(last + 2)
    BY DEF Meant, AreFields
  <2> QED
    BY <1>2, <1>5, <1>6, <2>1, <2>2
<1>8. CASE FetchData
  <2>1. now_pos = last /\ loc' = "done" /\ data_' = Substr(last + 4, Len(request))
    BY <1>7, <1>8 DEF FetchData
  <2>2. HasFields(FieldsTo(last))'
    BY <1>2, <1>4, <2>1
  <2>3. data_' = Substr(last + 4, Len(request))'
    BY <1>1, <2>1 DEF Substr
  <2> QED
    BY <1>3, <2>1, <2>2, <2>3 DEF FoundSoFar, MeaningFound, Failed, InFields
<1>9. CASE NextLine
  <2>1. now_pos' = now_pos /\ loc' = "lines" /\ now_pos < last
    BY <1>2, <1>5, <1>7, <1>9 DEF NextLine, line
  <2>2. \A n : n = now_pos => HasFields(FieldsTo(n))'
    BY <1>2, <1>4
  <2>3. (HasFields(FieldsTo(now_pos)))'
    BY <2>1, <2>2
  <2> QED
    BY <1>2, <1>3, <1>5, <2>1, <2>3 DEF FoundSoFar, Failed, InFields
<1> QED
  BY <1>8, <1>9

\* In a line.
LEMMA LineFinds ==
    ASSUME ParserTypeOK, NEW s, NEW ed, NEW dot, NEW end, NEW last,
           Meant(s, ed, dot, end, last), FoundSoFar(s, ed, dot, end, last),
           BeginLine \/ ReadName \/ EndLine
    PROVE  FoundSoFar(s, ed, dot, end, last)'
<1>1. /\ loc \in {"lines", "line"} /\ request' = request
      /\ method_' = method_ /\ url_' = url_ /\ version' = version
  BY DEF BeginLine, ReadName, EndLine, first
<1>2. /\ method_ = Method(Char(0)) /\ url_ = Substr(s + 1, ed)
      /\ version = <<Substr(ed + 2, dot), Substr(dot + 1, end)>>
  BY <1>1 DEF FoundSoFar, InFields
<1>3. /\ method_' = Method(Char(0))' /\ url_' = Substr(s + 1, ed)'
      /\ version' = <<Substr(ed + 2, dot), Substr(dot + 1, end)>>'
      /\ Ends' = Ends /\ At(":")' = At(":")
      /\ \A a, c, b : IsField(a, c, b)' = IsField(a, c, b)
  BY <1>1, <1>2, SameCharacters, SameMeaning
<1>4. CASE BeginLine
  <2>1. loc' = "line"
    BY <1>4 DEF BeginLine
  <2>2. \E a, b \in Ends : \E c \in At(":") :
            end <= a /\ b <= last /\ IsField(a, c, b) /\ IsIn(a, c, b)'
    BY <1>4, BeginLineFinds
  <2>3. (\E a, b \in Ends : \E c \in At(":") :
            end <= a /\ b <= last /\ IsField(a, c, b) /\ IsIn(a, c, b))'
    BY <1>3, <2>2
  <2> QED
    BY <1>3, <2>1, <2>3 DEF FoundSoFar, Failed, InFields
<1>5. ASSUME ReadName \/ EndLine
      PROVE  \E a, b \in Ends : \E c \in At(":") :
               end <= a /\ b <= last /\ IsField(a, c, b) /\ IsIn(a, c, b)
  BY <1>5 DEF ReadName, EndLine, FoundSoFar
<1>6. CASE ReadName
  <2>1. loc' = "line"
    BY <1>6 DEF ReadName
  <2>2. PICK a \in Ends, b \in Ends, c \in At(":") :
            end <= a /\ b <= last /\ IsField(a, c, b) /\ IsIn(a, c, b)
    BY <1>5, <1>6
  <2>3. IsIn(a, c, b)'
    BY <1>6, <2>2, ReadNameFinds
  <2>4. (\E a_1, b_1 \in Ends : \E c_1 \in At(":") :
            end <= a_1 /\ b_1 <= last /\ IsField(a_1, c_1, b_1) /\ IsIn(a_1, c_1, b_1))'
    BY <1>3, <2>2, <2>3
  <2> QED
    BY <1>3, <2>1, <2>4 DEF FoundSoFar, Failed, InFields
<1>7. CASE EndLine
  <2>1. loc' = "lineEnd"
    BY <1>7 DEF EndLine
  <2>2. PICK a \in Ends, b \in Ends, c \in At(":") :
            end <= a /\ b <= last /\ IsField(a, c, b) /\ IsIn(a, c, b)
    BY <1>5, <1>7
  <2>3. now_pos' = b /\ HasFields(FieldsTo(b))'
    BY <1>7, <2>2, EndLineFinds
  <2>4. end < b
    BY <2>2, EndPlaces, Places DEF At, IsField
  <2>5. (HasFields(FieldsTo(now_pos)))'
    BY <2>3
  <2> QED
    BY <1>3, <2>1, <2>2, <2>3, <2>4, <2>5 DEF FoundSoFar, Failed, InFields
<1> QED
  BY <1>4, <1>6, <1>7

\* Whatever the step, but for the first.
LEMMA MeaningStays ==
    ASSUME ParserTypeOK, NEW s, NEW ed, NEW dot, NEW end, NEW last,
           Meant(s, ed, dot, end, last), FoundSoFar(s, ed, dot, end, last),
           StaysInside, ParserNext, ~Parse
    PROVE  FoundSoFar(s, ed, dot, end, last)'
<1>1. CASE FetchURL \/ FetchVersion
  BY <1>1, FirstLineFinds
<1>2. CASE BeginLine \/ ReadName \/ EndLine
  BY <1>2, LineFinds
<1>3. CASE FetchData \/ NextLine
  BY <1>3, NextLineFinds
<1>4. CASE NoURL \/ NoVersion \/ NoMoreLines \/ RunPastEnd \/ LookPastEnd
  BY <1>4, NothingIsMissing
<1> QED
  BY <1>1, <1>2, <1>3, <1>4 DEF ParserNext

\* Nothing has been found in a request that has just been given, and nothing
\* is to be found in an empty one.
LEMMA ParseFinds ==
    ASSUME ParserTypeOK', Parse
    PROVE  FindsMeaning'
<1>1. CASE request' = <<>>
  <2>1. Ends' = {}
    BY <1>1 DEF Ends, At
  <2> QED
    BY <2>1 DEF FindsMeaning
<1>2. CASE request' # <<>>
  <2>1. loc' = "url"
    BY <1>2 DEF Parse
  <2> QED
    BY <2>1 DEF FindsMeaning, FoundSoFar, Failed, InFields
<1> QED
  BY <1>1, <1>2

LEMMA FindsMeaningStays ==
    ASSUME ParserTypeOK, FindsMeaning, StaysInside, ParserNext
    PROVE  FindsMeaning'
<1>1. CASE Parse
  <2>1. ParserTypeOK'
    BY TypesStay
  <2> QED
    BY <1>1, <2>1, ParseFinds
<1>2. CASE ~Parse
  <2>1. request' = request
    BY <1>2 DEF ParserNext, FetchURL, NoURL, FetchVersion, NoVersion, BeginLine, NoMoreLines,
       ReadName, EndLine, RunPastEnd, FetchData, NextLine, LookPastEnd
  <2>2. SUFFICES ASSUME NEW end \in Ends, NEW last \in Ends, AreFields(end, last),
                        NEW s \in At(SP), NEW ed \in At(SP), NEW dot \in At("."),
                        IsRequestLine(s, ed, dot, end)
                 PROVE  FoundSoFar(s, ed, dot, end, last)'
    <3>1. /\ Ends' = Ends /\ At(SP)' = At(SP) /\ At(".")' = At(".")
          /\ \A end, last : AreFields(end, last)' = AreFields(end, last)
          /\ \A s, ed, dot, end : IsRequestLine(s, ed, dot, end)' = IsRequestLine(s, ed, dot, end)
      BY <2>1, SameCharacters, SameMeaning
    <3> QED
      BY <3>1 DEF FindsMeaning
  <2>3. Meant(s, ed, dot, end, last) /\ FoundSoFar(s, ed, dot, end, last)
    BY <2>2 DEF Meant, FindsMeaning
  <2> QED
    BY <1>2, <2>3, MeaningStays
<1> QED
  BY <1>1, <1>2

-----------------------------------------------------------------------------
(* A part of a request.                                                    *)

\* Where Parse sees the end of a line in such a part, CR is its last
\* character, or LF is next.
LEMMA CutLineEnds ==
    ASSUME ParserTypeOK, IsCut, NEW p \in 0 .. Len(request) - 1, EndsAt(p)
    PROVE  IsLineEnd(p) \/ p + 1 = Len(request)
<1>1. p \in Nat /\ Len(request) \in Nat
  BY DEF ParserTypeOK
<1>2. CASE Char(p) = CR
  <2>1. p \in At(CR)
    BY <1>2 DEF At
  <2> QED
    BY <1>1, <2>1 DEF IsCut
<1>3. CASE Char(p + 1) = LF
  <2>1. p + 1 \in At(LF)
    BY <1>1, <1>3, AtPlaces, Characters
  <2> QED
    BY <1>1, <2>1 DEF IsCut
<1> QED
  BY <1>2, <1>3 DEF EndsAt

LEMMA StaysInsideStays ==
    ASSUME ParserTypeOK, StaysInside, ParserNext
    PROVE  StaysInside'
<1>1. Len(request) \in Nat /\ now_pos \in Nat
  BY DEF ParserTypeOK
<1>2. ParserTypeOK'
  BY TypesStay
<1>3. CASE Parse
  BY <1>3 DEF Parse, StaysInside
<1>4. CASE FetchURL
  BY <1>4 DEF FetchURL, StaysInside
<1>5. CASE NoURL \/ NoVersion \/ RunPastEnd \/ LookPastEnd
  BY <1>5 DEF NoURL, NoVersion, RunPastEnd, LookPastEnd, StaysInside
<1>6. CASE FetchVersion
  <2>1. /\ loc = "version" /\ request' = request /\ field_info_' = field_info_ /\ data_' = data_
        /\ \/ loc' = "lines" /\ now_pos' \in 1 .. Len(request)
           \/ loc' = "overflow"
    BY <1>6 DEF FetchVersion
  <2> QED
    BY <1>1, <2>1 DEF StaysInside
<1>7. CASE BeginLine \/ ReadName
  BY <1>7 DEF BeginLine, ReadName, StaysInside
<1>8. CASE NoMoreLines
  <2>1. /\ loc = "lines" /\ loc' = "done" /\ now_pos' = now_pos /\ request' = request
        /\ field_info_' = field_info_ /\ data_' = data_ /\ now_pos >= Len(request)
    BY <1>8 DEF NoMoreLines, line
  <2> QED
    BY <1>1, <2>1 DEF StaysInside
<1>9. CASE EndLine
  <2>1. PICK p \in now_pos .. Len(request) - 1 : EndsAt(p) /\ now_pos' = p
    BY <1>9 DEF EndLine
  <2>2. /\ loc = "line" /\ loc' = "lineEnd" /\ request' = request /\ data_' = data_
    BY <1>9 DEF EndLine
  <2>3. EndsAt(p)'
    BY <2>1, <2>2, SameCharacters
  <2>4. (now_pos < Len(request) /\ EndsAt(now_pos))'
    BY <1>1, <2>1, <2>2, <2>3
  <2> QED
    BY <2>2, <2>4 DEF StaysInside
<1>10. CASE FetchData
  <2>1. /\ loc = "lineEnd" /\ loc' = "done" /\ request' = request /\ IsEmptyLine
    BY <1>10 DEF FetchData
  <2>2. ~IsCut
    <3>1. SUFFICES ASSUME IsCut PROVE FALSE
      OBVIOUS
    <3>2. now_pos \in 0 .. Len(request) - 1 /\ EndsAt(now_pos)
      BY <1>1, <2>1 DEF StaysInside
    <3>3. Char(now_pos + 2) = CR /\ Char(now_pos + 3) = LF /\ IsLineEnd(now_pos + 2)
      BY <1>1, <2>1 DEF IsEmptyLine, IsLineEnd
    <3>4. now_pos + 3 < Len(request)
      BY <1>1, <3>3, EndPlaces
    <3>5. IsLineEnd(now_pos)
      BY <1>1, <3>1, <3>2, <3>4, CutLineEnds
    <3> QED
      BY <1>1, <3>1, <3>3, <3>5, EndPlaces DEF IsCut
  <2>3. ~IsCut'
    BY <2>1, <2>2, SameMeaning
  <2> QED
    BY <2>1, <2>3 DEF StaysInside
<1>11. CASE NextLine
  <2>1. /\ loc = "lineEnd" /\ loc' = "lines" /\ request' = request /\ data_' = data_
        /\ now_pos' = now_pos /\ now_pos + 2 <= Len(request)
    BY <1>11 DEF NextLine, line
  <2> QED
    BY <1>1, <2>1 DEF StaysInside
<1> QED
  BY <1>3, <1>4, <1>5, <1>6, <1>7, <1>8, <1>9, <1>10, <1>11 DEF ParserNext

-----------------------------------------------------------------------------
(* The invariant.                                                          *)

LEMMA NothingParsed ==
    ASSUME ParserInit
    PROVE  ParserIInv
<1>1. ParserTypeOK
  <2>1. DOMAIN field_info_ = {}
    BY DEF ParserInit
  <2>2. [n \in {} |-> <<>>] \in [{} -> Seq(Alphabet)]
    OBVIOUS
  <2>3. field_info_ \in [DOMAIN field_info_ -> Seq(Alphabet)]
    BY <2>1, <2>2 DEF ParserInit
  <2>4. version \in Seq(Alphabet) \X Seq(Alphabet)
    <3>1. <<>> \in Seq(Alphabet)
      OBVIOUS
    <3> QED
      BY <3>1 DEF ParserInit
  <2>5. /\ request \in Seq(Alphabet) /\ url_ \in Seq(Alphabet) /\ data_ \in Seq(Alphabet)
        /\ field_ \in Seq(Seq(Alphabet))
    BY DEF ParserInit
  <2>6. now_pos \in Nat /\ st \in Nat /\ loc = "new" /\ method_ = "Other"
    BY DEF ParserInit
  <2> QED
    BY <2>1, <2>3, <2>4, <2>5, <2>6 DEF ParserTypeOK
<1>2. Ends = {}
  BY DEF ParserInit, Ends, At
<1>3. FindsMeaning
  BY <1>2 DEF FindsMeaning
<1>4. StaysInside
  BY DEF ParserInit, StaysInside
<1> QED
  BY <1>1, <1>3, <1>4 DEF ParserIInv

LEMMA NothingChanges ==
    ASSUME ParserIInv, UNCHANGED parserVars
    PROVE  ParserIInv'
<1>1. /\ request' = request /\ loc' = loc /\ method_' = method_ /\ url_' = url_
      /\ version' = version /\ field_info_' = field_info_ /\ data_' = data_
      /\ now_pos' = now_pos /\ st' = st /\ field_' = field_
  BY DEF parserVars, first, line
<1>2. /\ \A k : Char(k)' = Char(k)
      /\ \A k : EndsAt(k)' = EndsAt(k)
      /\ \A c : At(c)' = At(c)
      /\ Ends' = Ends
      /\ \A from, to : Substr(from, to)' = Substr(from, to)
  BY <1>1, SameCharacters
<1>3. /\ \A a, c, b : IsField(a, c, b)' = IsField(a, c, b)
      /\ \A end, last : AreFields(end, last)' = AreFields(end, last)
      /\ \A s, ed, dot, end : IsRequestLine(s, ed, dot, end)' = IsRequestLine(s, ed, dot, end)
      /\ \A n : FieldsTo(n)' = FieldsTo(n)
      /\ IsCut' = IsCut
  BY <1>1, SameMeaning
<1>4. \A n : HasFields(FieldsTo(n)) => HasFields(FieldsTo(n))'
  BY <1>1, FieldsStay
<1>5. \A a, c, b : IsIn(a, c, b) => IsIn(a, c, b)'
  BY <1>1, <1>2, <1>4 DEF IsIn
<1>6. ASSUME NEW s, NEW ed, NEW dot, NEW end, NEW last, FoundSoFar(s, ed, dot, end, last)
      PROVE  FoundSoFar(s, ed, dot, end, last)'
  <2>1. Failed' = Failed /\ InFields' = InFields
    BY <1>1 DEF Failed, InFields
  <2>2. MeaningFound(s, ed, dot, end, last) => MeaningFound(s, ed, dot, end, last)'
    BY <1>1, <1>2, <1>4 DEF MeaningFound
  <2>3. HasFields(FieldsTo(now_pos)) => (HasFields(FieldsTo(now_pos)))'
    <3>1. \A n : n = now_pos => (HasFields(FieldsTo(n)) => HasFields(FieldsTo(n))')
      BY <1>4
    <3> QED
      BY <1>1, <3>1
  <2> QED
    BY <1>1, <1>2, <1>3, <1>5, <1>6, <2>1, <2>2, <2>3 DEF FoundSoFar
<1>7. ParserTypeOK'
  BY <1>1 DEF ParserIInv, ParserTypeOK
<1>8. FindsMeaning'
  BY <1>2, <1>3, <1>6 DEF ParserIInv, FindsMeaning
<1>9. StaysInside'
  BY <1>1, <1>2, <1>3 DEF ParserIInv, StaysInside
<1> QED
  BY <1>7, <1>8, <1>9 DEF ParserIInv

LEMMA InvariantStays ==
    ASSUME ParserIInv, [ParserNext]_parserVars
    PROVE  ParserIInv'
<1>1. CASE ParserNext
  <2>1. ParserTypeOK'
    BY TypesStay DEF ParserIInv
  <2>2. FindsMeaning'
    BY <1>1, FindsMeaningStays DEF ParserIInv
  <2>3. StaysInside'
    BY <1>1, StaysInsideStays DEF ParserIInv
  <2> QED
    BY <2>1, <2>2, <2>3 DEF ParserIInv
<1>2. CASE UNCHANGED parserVars
  BY <1>2, NothingChanges
<1> QED
  BY <1>1, <1>2

\* Parse has found everything up to where it is, and it stays inside the
\* string where it has not failed (parser.cpp:8-100).
THEOREM ParserInvariance == ParserSpec => []ParserIInv
<1>1. ParserInit => ParserIInv
  BY NothingParsed
<1>2. ParserIInv /\ [ParserNext]_parserVars => ParserIInv'
  BY InvariantStays
<1> QED
  BY <1>1, <1>2, PTL DEF ParserSpec

\* A request with its whole header and at least one field is parsed as the
\* client meant it; a part of one that lacks the end of the header gives no
\* field and no data, if Parse ends in it at all (parser.cpp:15-99).
THEOREM WholeRequestsAreParsed == ParserSpec => []ParsesWholeRequests
<1>1. ParserIInv => ParsesWholeRequests
  <2>1. SUFFICES ASSUME ParserIInv, Ended PROVE ParsesWholeRequests
    BY DEF ParsesWholeRequests
  <2>2. ASSUME NEW end \in Ends, NEW last \in Ends, AreFields(end, last),
               NEW s \in At(SP), NEW ed \in At(SP), NEW dot \in At("."),
               IsRequestLine(s, ed, dot, end)
        PROVE  MeaningFound(s, ed, dot, end, last)
    <3>1. FoundSoFar(s, ed, dot, end, last)
      BY <2>1, <2>2 DEF ParserIInv, FindsMeaning
    <3> QED
      BY <2>1, <3>1 DEF FoundSoFar, Ended
  <2>3. IsCut /\ loc = "done" =>
          now_pos = Len(request) /\ DOMAIN field_info_ = {} /\ data_ = <<>>
    BY <2>1 DEF ParserIInv, StaysInside
  <2> QED
    BY <2>2, <2>3 DEF ParsesWholeRequests
<1> QED
  BY <1>1, ParserInvariance, PTL

-----------------------------------------------------------------------------
(* Induction over the natural numbers, as facts about sets, and what it    *)
(* gives of recursive functions.                                           *)

LEMMA StrongInduction ==
    ASSUME NEW S, \A n \in Nat : (\A m \in 0 .. n - 1 : m \in S) => n \in S
    PROVE  Nat \subseteq S
<1> DEFINE T == Nat \ S
           R == OpToRel(<, Nat)
<1>1. SUFFICES ASSUME T # {} PROVE FALSE
  OBVIOUS
<1>2. PICK x \in T : \A y \in T : ~(<<y, x>> \in R)
  <2>1. IsWellFoundedOn(R, Nat)
    BY NatLessThanWellFounded
  <2>2. T \subseteq Nat
    OBVIOUS
  <2> HIDE DEF T, R
  <2> QED BY <1>1, <2>1, <2>2, WFMin
<1>3. ASSUME NEW m \in 0 .. x - 1 PROVE m \in S
  <2>1. <<m, x>> \in R
    BY <1>2 DEF OpToRel
  <2> HIDE DEF R
  <2> QED BY <1>2, <2>1
<1> HIDE DEF R
<1> QED BY <1>2, <1>3

LEMMA Induction ==
    ASSUME NEW S, 0 \in S, \A n \in Nat : n \in S => n + 1 \in S
    PROVE  Nat \subseteq S
<1>1. ASSUME NEW n \in Nat, \A m \in 0 .. n - 1 : m \in S
      PROVE  n \in S
  <2>1. CASE n = 0
    BY <2>1
  <2>2. CASE n # 0
    <3>1. n - 1 \in Nat /\ n - 1 \in 0 .. n - 1 /\ (n - 1) + 1 = n
      BY <2>2
    <3>2. n - 1 \in S => (n - 1) + 1 \in S
      BY <3>1
    <3> QED BY <1>1, <3>1, <3>2
  <2> QED BY <2>1, <2>2
<1> QED BY <1>1, StrongInduction

\* A sequence of values from a on, each of which F makes of the one before.
IsRecursive(s, X, a, N, F) ==
    /\ s \in [0 .. N -> X]
    /\ s[0] = a
    /\ \A k \in 1 .. N : s[k] = F[<<s[k - 1], k>>]
HasRecursion(X, a, N, F) == \E s : IsRecursive(s, X, a, N, F)

LEMMA Recursion ==
    ASSUME NEW X, NEW a \in X, NEW N \in Nat, NEW F \in [X \X (1 .. N) -> X]
    PROVE  HasRecursion(X, a, N, F)
<1> DEFINE Is(s, n) == /\ s \in [0 .. n -> X]
                       /\ s[0] = a
                       /\ \A k \in 1 .. n : s[k] = F[<<s[k - 1], k>>]
           S == {n \in Nat : n <= N => \E s \in [0 .. n -> X] : Is(s, n)}
<1>1. 0 \in S
  <2> DEFINE s == [k \in 0 .. 0 |-> a]
  <2>1. Is(s, 0)
    OBVIOUS
  <2> QED BY <2>1
<1>2. ASSUME NEW n \in Nat, n \in S PROVE n + 1 \in S
  <2> SUFFICES ASSUME n + 1 <= N PROVE \E s \in [0 .. n + 1 -> X] : Is(s, n + 1)
    OBVIOUS
  <2>1. PICK s \in [0 .. n -> X] : Is(s, n)
    BY <1>2
  <2> DEFINE t == [k \in 0 .. n + 1 |-> IF k = n + 1 THEN F[<<s[n], n + 1>>] ELSE s[k]]
  <2>2. F[<<s[n], n + 1>>] \in X
    BY <2>1
  <2>3. t \in [0 .. n + 1 -> X] /\ t[0] = a
    BY <2>1, <2>2
  <2>4. ASSUME NEW k \in 1 .. n + 1 PROVE t[k] = F[<<t[k - 1], k>>]
    <3>1. k - 1 \in 0 .. n /\ t[k - 1] = s[k - 1]
      OBVIOUS
    <3>2. CASE k = n + 1
      <4>1. t[k] = F[<<s[n], n + 1>>] /\ k - 1 = n
        BY <3>2
      <4> HIDE DEF t
      <4> QED BY <3>1, <3>2, <4>1
    <3>3. CASE k # n + 1
      <4>1. t[k] = s[k] /\ k \in 1 .. n
        BY <3>3
      <4> HIDE DEF t
      <4> QED BY <2>1, <3>1, <4>1
    <3> QED BY <3>2, <3>3
  <2>5. Is(t, n + 1)
    BY <2>3, <2>4
  <2> HIDE DEF t, Is
  <2> QED BY <2>3, <2>5 DEF Is
<1>3. Nat \subseteq S
  <2> HIDE DEF S
  <2> QED BY <1>1, <1>2, Induction
<1>4. N \in S
  BY <1>3, Zenon
<1> QED BY <1>4 DEF HasRecursion, IsRecursive

-----------------------------------------------------------------------------
LEMMA SumsAreSums ==
    ASSUME NEW f \in Seq(Nat)
    PROVE  /\ Sums(f) \in [0 .. Len(f) -> Nat]
           /\ Sums(f)[0] = 0
           /\ \A k \in 1 .. Len(f) : Sums(f)[k] = Sums(f)[k - 1] + f[k]
<1> DEFINE N == Len(f)
           F == [p \in Nat \X (1 .. N) |-> p[1] + f[p[2]]]
           Is(s) == s = [k \in 0 .. N |-> IF k = 0 THEN 0 ELSE s[k - 1] + f[k]]
<1>1. N \in Nat /\ F \in [Nat \X (1 .. N) -> Nat]
  OBVIOUS
<1>2. PICK s \in [0 .. N -> Nat] : s[0] = 0 /\ \A k \in 1 .. N : s[k] = F[<<s[k - 1], k>>]
  <2> HIDE DEF F, N
  <2>1. HasRecursion(Nat, 0, N, F)
    BY <1>1, Recursion
  <2> QED BY <2>1 DEF HasRecursion, IsRecursive
<1>3. \A k \in 1 .. N : s[k] = s[k - 1] + f[k]
  <2> SUFFICES ASSUME NEW k \in 1 .. N PROVE s[k] = s[k - 1] + f[k]
    OBVIOUS
  <2>1. <<s[k - 1], k>> \in Nat \X (1 .. N)
    <3> HIDE DEF F, N
    <3>1. k - 1 \in 0 .. N
      BY <1>1
    <3>2. s[k - 1] \in Nat
      BY <3>1
    <3> QED BY <3>2
  <2>2. F[<<s[k - 1], k>>] = s[k - 1] + f[k]
    BY <2>1
  <2> HIDE DEF F, N
  <2> QED BY <1>2, <2>2
<1>4. Is(s)
  <2> HIDE DEF F, N
  <2> QED BY <1>1, <1>2, <1>3
<1>5. Is(Sums(f))
  <2>1. Sums(f) = CHOOSE t : Is(t)
    BY DEF Sums
  <2> HIDE DEF Is
  <2> QED BY <1>4, <2>1, Zenon
<1> DEFINE t == Sums(f)
<1> HIDE DEF t
<1>6. /\ t[0] = 0
      /\ \A k \in 1 .. N : t[k] = t[k - 1] + f[k]
      /\ t = [k \in 0 .. N |-> t[k]]
  <2>1. t = [k \in 0 .. N |-> IF k = 0 THEN 0 ELSE t[k - 1] + f[k]]
    BY <1>5 DEF t
  <2> HIDE DEF F, N, Is
  <2>2. \A k \in 0 .. N : t[k] = IF k = 0 THEN 0 ELSE t[k - 1] + f[k]
    BY <2>1, Zenon
  <2>3. t = [k \in 0 .. N |-> t[k]]
    BY <2>1, Zenon
  <2>4. \A k \in 1 .. N : k \in 0 .. N /\ k # 0
    BY <1>1
  <2>5. \A k \in 1 .. N : t[k] = t[k - 1] + f[k]
    BY <2>2, <2>4, Zenon
  <2>6. t[0] = 0
    BY <1>1, <2>2
  <2> QED BY <2>3, <2>5, <2>6
<1> DEFINE S == {n \in Nat : n <= N => t[n] \in Nat}
<1>7. 0 \in S
  BY <1>6
<1>8. ASSUME NEW n \in Nat, n \in S PROVE n + 1 \in S
  <2> SUFFICES ASSUME n + 1 <= N PROVE t[n + 1] \in Nat
    OBVIOUS
  <2>1. n + 1 \in 1 .. N /\ (n + 1) - 1 = n /\ t[n] \in Nat
    BY <1>1, <1>8
  <2>2. t[n + 1] = t[n] + f[n + 1]
    BY <1>6, <2>1
  <2>3. f[n + 1] \in Nat
    BY <2>1
  <2> QED BY <2>1, <2>2, <2>3
<1>9. Nat \subseteq S
  <2> HIDE DEF S
  <2> QED BY <1>7, <1>8, Induction
<1>10. \A k \in 0 .. N : t[k] \in Nat
  BY <1>1, <1>9
<1>11. t \in [0 .. N -> Nat]
  <2> HIDE DEF N
  <2> QED BY <1>6, <1>10
<1> QED BY <1>6, <1>11 DEF t

LEMMA SumsOfPrefix ==
    ASSUME NEW f \in Seq(Nat), NEW g \in Seq(Nat), NEW n \in Nat,
           n <= Len(f), n <= Len(g), \A k \in 1 .. n : f[k] = g[k]
    PROVE  Sums(f)[n] = Sums(g)[n]
<1> DEFINE S == {k \in Nat : k <= n => Sums(f)[k] = Sums(g)[k]}
<1>1. 0 \in S
  BY SumsAreSums
<1>2. ASSUME NEW k \in Nat, k \in S PROVE k + 1 \in S
  <2> SUFFICES ASSUME k + 1 <= n PROVE Sums(f)[k + 1] = Sums(g)[k + 1]
    OBVIOUS
  <2>1. k + 1 \in 1 .. Len(f) /\ k + 1 \in 1 .. Len(g) /\ (k + 1) - 1 = k /\ k + 1 \in 1 .. n
    OBVIOUS
  <2>2. Sums(f)[k + 1] = Sums(f)[k] + f[k + 1] /\ Sums(g)[k + 1] = Sums(g)[k] + g[k + 1]
    BY <2>1, SumsAreSums
  <2> QED BY <1>2, <2>1, <2>2
<1>3. Nat \subseteq S
  <2> HIDE DEF S
  <2> QED BY <1>1, <1>2, Induction
<1> QED BY <1>3

LEMMA SumsGrow ==
    ASSUME NEW f \in Seq(Nat), NEW j \in 0 .. Len(f), NEW k \in j .. Len(f)
    PROVE  Sums(f)[j] <= Sums(f)[k]
<1> DEFINE S == {n \in Nat : j + n <= Len(f) => Sums(f)[j] <= Sums(f)[j + n]}
<1>1. \A n \in 0 .. Len(f) : Sums(f)[n] \in Nat
  BY SumsAreSums
<1>2. 0 \in S
  BY <1>1
<1>3. ASSUME NEW n \in Nat, n \in S PROVE n + 1 \in S
  <2> SUFFICES ASSUME j + (n + 1) <= Len(f) PROVE Sums(f)[j] <= Sums(f)[j + (n + 1)]
    OBVIOUS
  <2>1. j + n + 1 \in 1 .. Len(f) /\ (j + n + 1) - 1 = j + n /\ j + (n + 1) = j + n + 1
    OBVIOUS
  <2>2. Sums(f)[j + n + 1] = Sums(f)[j + n] + f[j + n + 1]
    BY <2>1, SumsAreSums
  <2>3. f[j + n + 1] \in Nat /\ Sums(f)[j] \in Nat /\ Sums(f)[j + n] \in Nat
    BY <1>1, <2>1
  <2> QED BY <1>3, <2>1, <2>2, <2>3
<1>4. Nat \subseteq S
  <2> HIDE DEF S
  <2> QED BY <1>2, <1>3, Induction
<1>5. k - j \in S /\ j + (k - j) = k
  BY <1>4
<1> QED BY <1>5

-----------------------------------------------------------------------------
\* The digits mean what they are.
LEMMA DigitsHaveValues ==
    /\ \A c \in Digits : DigitValue(c) \in 0 .. 9
    /\ \A d \in 0 .. 9 : Digit[d + 1] \in Digits /\ DigitValue(Digit[d + 1]) = d
<1>1. \A d \in 0 .. 9 : Digit[d + 1] \in Digits
  BY DEF Digit, Digits
<1>2. \A c \in Digits : \E d \in 0 .. 9 : Digit[d + 1] = c
  <2>1. /\ Digit[0 + 1] = "0" /\ Digit[1 + 1] = "1" /\ Digit[2 + 1] = "2" /\ Digit[3 + 1] = "3"
        /\ Digit[4 + 1] = "4" /\ Digit[5 + 1] = "5" /\ Digit[6 + 1] = "6" /\ Digit[7 + 1] = "7"
        /\ Digit[8 + 1] = "8" /\ Digit[9 + 1] = "9"
    BY DEF Digit
  <2> QED BY <2>1 DEF Digits
<1>3. \A d, e \in 0 .. 9 : Digit[d + 1] = Digit[e + 1] => d = e
  BY DEF Digit
<1>4. \A c \in Digits : DigitValue(c) \in 0 .. 9 /\ Digit[DigitValue(c) + 1] = c
  BY <1>2 DEF DigitValue
<1> QED BY <1>1, <1>3, <1>4

\* The values that the client's loop has after each digit of s.
AreValues(t, s) ==
    /\ t \in [0 .. Len(s) -> Nat]
    /\ t[0] = 0
    /\ \A k \in 1 .. Len(s) : t[k] = 10 * t[k - 1] + DigitValue(s[k])

LEMMA ValuesExist ==
    ASSUME NEW s \in Seq(Digits)
    PROVE  \E t : AreValues(t, s)
<1> DEFINE N == Len(s)
           F == [p \in Nat \X (1 .. N) |-> 10 * p[1] + DigitValue(s[p[2]])]
<1>1. N \in Nat /\ \A k \in 1 .. N : DigitValue(s[k]) \in Nat
  BY DigitsHaveValues
<1>2. F \in [Nat \X (1 .. N) -> Nat]
  BY <1>1
<1>3. PICK t \in [0 .. N -> Nat] : t[0] = 0 /\ \A k \in 1 .. N : t[k] = F[<<t[k - 1], k>>]
  <2> HIDE DEF F, N
  <2>1. HasRecursion(Nat, 0, N, F)
    BY <1>1, <1>2, Recursion
  <2> QED BY <2>1 DEF HasRecursion, IsRecursive
<1>4. \A k \in 1 .. N : t[k] = 10 * t[k - 1] + DigitValue(s[k])
  <2> SUFFICES ASSUME NEW k \in 1 .. N PROVE t[k] = 10 * t[k - 1] + DigitValue(s[k])
    OBVIOUS
  <2>1. <<t[k - 1], k>> \in Nat \X (1 .. N)
    <3> HIDE DEF F, N
    <3>1. k - 1 \in 0 .. N
      BY <1>1
    <3>2. t[k - 1] \in Nat
      BY <3>1
    <3> QED BY <3>2
  <2>2. F[<<t[k - 1], k>>] = 10 * t[k - 1] + DigitValue(s[k])
    BY <2>1
  <2> HIDE DEF F, N
  <2> QED BY <1>3, <2>2
<1> HIDE DEF F
<1> QED BY <1>3, <1>4 DEF AreValues

LEMMA NumberIsLastValue ==
    ASSUME NEW s \in Seq(Digits), NEW t, AreValues(t, s)
    PROVE  NumberIn(s) = t[Len(s)] /\ NumberIn(s) \in Nat
<1> DEFINE N == Len(s)
           Is(v) == v = [k \in 0 .. N |-> IF k = 0 THEN 0 ELSE 10 * v[k - 1] + DigitValue(s[k])]
           value == CHOOSE v : Is(v)
<1>1. N \in Nat
  OBVIOUS
<1>2. NumberIn(s) = value[N]
  BY DEF NumberIn
<1>3. Is(t)
  BY DEF AreValues
<1>4. Is(value)
  <2> HIDE DEF Is
  <2> QED BY <1>3, Zenon
<1> HIDE DEF value
<1>5. \A k \in 0 .. N : value[k] = IF k = 0 THEN 0 ELSE 10 * value[k - 1] + DigitValue(s[k])
  <2>1. value = [k \in 0 .. N |-> IF k = 0 THEN 0 ELSE 10 * value[k - 1] + DigitValue(s[k])]
    BY <1>4
  <2> HIDE DEF Is, N
  <2> QED BY <2>1, Zenon
<1> DEFINE S == {k \in Nat : k <= N => value[k] = t[k]}
<1>6. 0 \in S
  BY <1>5 DEF AreValues
<1>7. ASSUME NEW k \in Nat, k \in S PROVE k + 1 \in S
  <2> SUFFICES ASSUME k + 1 <= N PROVE value[k + 1] = t[k + 1]
    OBVIOUS
  <2>1. k + 1 \in 1 .. N /\ (k + 1) - 1 = k /\ value[k] = t[k]
    BY <1>7
  <2>2. t[k + 1] = 10 * t[k] + DigitValue(s[k + 1])
    BY <2>1 DEF AreValues
  <2>3. value[k + 1] = 10 * value[k] + DigitValue(s[k + 1])
    BY <1>5, <2>1
  <2> QED BY <2>1, <2>2, <2>3
<1>8. Nat \subseteq S
  <2> HIDE DEF S
  <2> QED BY <1>6, <1>7, Induction
<1>9. value[N] = t[N]
  BY <1>8
<1> QED BY <1>2, <1>9 DEF AreValues

LEMMA NumberOfNoDigits == NumberIn(<<>>) = 0
<1> DEFINE s == <<>>
<1>1. s \in Seq(Digits)
  OBVIOUS
<1>2. Len(s) = 0
  OBVIOUS
<1> HIDE DEF s
<1>3. PICK t : AreValues(t, s)
  BY <1>1, ValuesExist
<1>4. NumberIn(s) = t[0]
  BY <1>1, <1>2, <1>3, NumberIsLastValue
<1> QED BY <1>3, <1>4 DEF AreValues, s

LEMMA NumberOfOneMore ==
    ASSUME NEW s \in Seq(Digits), NEW c \in Digits
    PROVE  NumberIn(Append(s, c)) = 10 * NumberIn(s) + DigitValue(c)
<1>1. PICK t : AreValues(t, s)
  BY ValuesExist
<1> DEFINE r == Append(s, c)
           v == [k \in 0 .. Len(r) |-> IF k = Len(r) THEN 10 * t[Len(s)] + DigitValue(c) ELSE t[k]]
<1>2. r \in Seq(Digits) /\ Len(r) = Len(s) + 1 /\ r[Len(s) + 1] = c
      /\ \A k \in 1 .. Len(s) : r[k] = s[k]
  OBVIOUS
<1>3. Len(s) \in Nat /\ DigitValue(c) \in Nat /\ t \in [0 .. Len(s) -> Nat]
  BY <1>1, DigitsHaveValues DEF AreValues
<1> HIDE DEF r
<1>4. AreValues(v, r)
  <2>1. v \in [0 .. Len(r) -> Nat] /\ v[0] = 0
    BY <1>1, <1>2, <1>3 DEF AreValues
  <2>2. ASSUME NEW k \in 1 .. Len(r) PROVE v[k] = 10 * v[k - 1] + DigitValue(r[k])
    <3>1. k - 1 \in 0 .. Len(s) /\ v[k - 1] = t[k - 1]
      BY <1>2, <1>3
    <3>2. CASE k = Len(r)
      <4>1. v[k] = 10 * t[Len(s)] + DigitValue(c) /\ k - 1 = Len(s) /\ r[k] = c
        BY <1>2, <1>3, <3>2
      <4> HIDE DEF v
      <4> QED BY <3>1, <4>1
    <3>3. CASE k # Len(r)
      <4>1. v[k] = t[k] /\ k \in 1 .. Len(s) /\ r[k] = s[k]
        BY <1>2, <1>3, <3>3
      <4> HIDE DEF v
      <4> QED BY <1>1, <3>1, <4>1 DEF AreValues
    <3> QED BY <3>2, <3>3
  <2> HIDE DEF v
  <2> QED BY <2>1, <2>2 DEF AreValues
<1>5. NumberIn(r) = v[Len(r)]
  <2> HIDE DEF v
  <2> QED BY <1>2, <1>4, NumberIsLastValue
<1>6. v[Len(r)] = 10 * t[Len(s)] + DigitValue(c)
  BY <1>2, <1>3
<1>7. NumberIn(s) = t[Len(s)]
  BY <1>1, NumberIsLastValue
<1> HIDE DEF v
<1> QED BY <1>5, <1>6, <1>7 DEF r

\* The texts of all numbers up to n, made of those of smaller ones.
AreTexts(t, n) ==
    t = [m \in 0 .. n |-> (IF m < 10 THEN <<>> ELSE t[m \div 10]) \o <<Digit[(m % 10) + 1]>>]

LEMMA TextsExist ==
    ASSUME NEW n \in Nat
    PROVE  \E t : AreTexts(t, n)
<1> DEFINE S == {k \in Nat : \E t : AreTexts(t, k)}
           Body(t, m) == (IF m < 10 THEN <<>> ELSE t[m \div 10]) \o <<Digit[(m % 10) + 1]>>
<1>1. 0 \in S
  <2> DEFINE t == [m \in 0 .. 0 |-> <<>> \o <<Digit[(m % 10) + 1]>>]
  <2>1. AreTexts(t, 0)
    BY DEF AreTexts
  <2> QED BY <2>1
<1>2. ASSUME NEW k \in Nat, k \in S PROVE k + 1 \in S
  <2>1. PICK t : AreTexts(t, k)
    BY <1>2
  <2> DEFINE u == [m \in 0 .. k + 1 |-> IF m = k + 1 THEN Body(t, m) ELSE t[m]]
  <2>2. ASSUME NEW m \in 0 .. k + 1 PROVE u[m] = Body(u, m)
    <3>1. m >= 10 => m \div 10 \in 0 .. k /\ u[m \div 10] = t[m \div 10]
      <4>1. m >= 10 => m \div 10 \in 0 .. k
        OBVIOUS
      <4> HIDE DEF Body
      <4> QED BY <4>1
    <3>2. Body(u, m) = Body(t, m)
      <4> HIDE DEF u
      <4>1. CASE m < 10
        BY <4>1
      <4>2. CASE ~(m < 10)
        <5>1. u[m \div 10] = t[m \div 10]
          BY <3>1, <4>2
        <5> QED BY <5>1
      <4> QED BY <4>1, <4>2
    <3>3. m # k + 1 => t[m] = Body(t, m)
      <4>1. t = [j \in 0 .. k |-> Body(t, j)]
        BY <2>1 DEF AreTexts
      <4>2. m # k + 1 => m \in 0 .. k
        OBVIOUS
      <4> HIDE DEF Body
      <4> QED BY <4>1, <4>2
    <3>4. u[m] = IF m = k + 1 THEN Body(t, m) ELSE t[m]
      <4> HIDE DEF Body
      <4> QED OBVIOUS
    <3> HIDE DEF u, Body
    <3> QED BY <3>2, <3>3, <3>4
  <2>3. u = [m \in 0 .. k + 1 |-> Body(u, m)]
    <3> HIDE DEF Body
    <3>1. u = [m \in 0 .. k + 1 |-> u[m]]
      OBVIOUS
    <3> HIDE DEF u
    <3> QED BY <2>2, <3>1, Zenon
  <2>4. AreTexts(u, k + 1)
    <3> HIDE DEF u
    <3> QED BY <2>3 DEF AreTexts
  <2> HIDE DEF u
  <2> QED BY <2>4
<1>3. Nat \subseteq S
  <2> HIDE DEF S
  <2> QED BY <1>1, <1>2, Induction
<1> QED BY <1>3

\* Content-Length as AutoFill writes it, and a status, are read as the number
\* that they were written for, whatever it is (response.cpp:70-71, :84).
THEOREM NumbersAreRead ==
    ASSUME NEW n \in Nat
    PROVE  /\ DecimalText(n) \in Seq(Digits)
           /\ DecimalText(n) # <<>>
           /\ NumberIn(DecimalText(n)) = n
<1> DEFINE t == CHOOSE u : AreTexts(u, n)
<1>1. AreTexts(t, n)
  BY TextsExist, Zenon
<1>2. DecimalText(n) = t[n]
  BY DEF DecimalText, AreTexts
<1> HIDE DEF t
<1> DEFINE Good(m) == t[m] \in Seq(Digits) /\ Len(t[m]) > 0 /\ NumberIn(t[m]) = m
           S == {m \in Nat : m <= n => Good(m)}
<1>3. ASSUME NEW m \in Nat, \A k \in 0 .. m - 1 : k \in S PROVE m \in S
  <2> SUFFICES ASSUME m <= n PROVE Good(m)
    OBVIOUS
  <2> DEFINE d == m % 10
             before == IF m < 10 THEN <<>> ELSE t[m \div 10]
  <2>1. d \in 0 .. 9
    OBVIOUS
  <2>2. Digit[d + 1] \in Digits /\ DigitValue(Digit[d + 1]) = d
    BY <2>1, DigitsHaveValues
  <2>3. t[m] = before \o <<Digit[d + 1]>>
    <3>1. t = [j \in 0 .. n |-> (IF j < 10 THEN <<>> ELSE t[j \div 10]) \o <<Digit[(j % 10) + 1]>>]
      BY <1>1 DEF AreTexts
    <3>2. m \in 0 .. n
      OBVIOUS
    <3> QED BY <3>1, <3>2, Zenon
  <2>4. before \in Seq(Digits) /\ NumberIn(before) = m \div 10
    <3>1. CASE m < 10
      <4>1. before = <<>> /\ m \div 10 = 0
        BY <3>1
      <4> HIDE DEF before
      <4> QED BY <4>1, NumberOfNoDigits
    <3>2. CASE ~(m < 10)
      <4>1. before = t[m \div 10]
        BY <3>2
      <4>2. m \div 10 \in 0 .. m - 1
        BY <3>2
      <4>3. m \div 10 \in S /\ m \div 10 <= n
        BY <1>3, <4>2
      <4>4. Good(m \div 10)
        BY <4>3
      <4> HIDE DEF before
      <4> QED BY <4>1, <4>4
    <3> QED BY <3>1, <3>2
  <2> HIDE DEF before
  <2>5. t[m] = Append(before, Digit[d + 1])
    BY <2>2, <2>3, <2>4
  <2>6. NumberIn(t[m]) = 10 * (m \div 10) + d
    <3> HIDE DEF d
    <3> QED BY <2>2, <2>4, <2>5, NumberOfOneMore
  <2>7. 10 * (m \div 10) + d = m
    OBVIOUS
  <2>8. t[m] \in Seq(Digits) /\ Len(t[m]) > 0
    <3> HIDE DEF d
    <3> QED BY <2>2, <2>4, <2>5
  <2> QED BY <2>6, <2>7, <2>8
<1>4. Nat \subseteq S
  <2> HIDE DEF S
  <2> QED BY <1>3, StrongInduction
<1>5. Good(n)
  BY <1>4
<1> QED BY <1>2, <1>5

-----------------------------------------------------------------------------
LEMMA LinesHaveLengths ==
    ASSUME NEW ls \in Seq(Strings)
    PROVE  /\ Lengths(ls) \in Seq(Nat)
           /\ Len(Lengths(ls)) = Len(ls)
           /\ \A k \in 1 .. Len(ls) : Lengths(ls)[k] = Len(ls[k]) + 2 /\ Len(ls[k]) \in Nat
<1>1. \A k \in 1 .. Len(ls) : Len(ls[k]) \in Nat
  BY DEF Strings
<1> QED BY <1>1 DEF Lengths

LEMMA AfterLines ==
    ASSUME NEW ls \in Seq(Strings)
    PROVE  /\ After(ls, 0) = 0
           /\ \A k \in 0 .. Len(ls) : After(ls, k) \in Nat
           /\ \A k \in 1 .. Len(ls) : After(ls, k) = After(ls, k - 1) + Len(ls[k]) + 2
           /\ \A j \in 0 .. Len(ls) : \A k \in j .. Len(ls) : After(ls, j) <= After(ls, k)
<1> DEFINE f == Lengths(ls)
           N == Len(ls)
<1>1. f \in Seq(Nat) /\ Len(f) = N /\ N \in Nat
      /\ \A k \in 1 .. N : f[k] = Len(ls[k]) + 2 /\ Len(ls[k]) \in Nat
  BY LinesHaveLengths
<1>2. \A k : After(ls, k) = Sums(f)[k]
  BY DEF After
<1> HIDE DEF f, N
<1>3. /\ Sums(f) \in [0 .. N -> Nat]
      /\ Sums(f)[0] = 0
      /\ \A k \in 1 .. N : Sums(f)[k] = Sums(f)[k - 1] + f[k]
  BY <1>1, SumsAreSums
<1>4. \A j \in 0 .. N : \A k \in j .. N : Sums(f)[j] <= Sums(f)[k]
  BY <1>1, SumsGrow
<1>5. \A k \in 0 .. N : After(ls, k) \in Nat
  BY <1>2, <1>3
<1>6. ASSUME NEW k \in 1 .. N PROVE After(ls, k) = After(ls, k - 1) + Len(ls[k]) + 2
  <2>1. k - 1 \in 0 .. N
    BY <1>1
  <2>2. After(ls, k - 1) \in Nat
    BY <1>5, <2>1
  <2>3. After(ls, k) = After(ls, k - 1) + f[k]
    BY <1>2, <1>3
  <2> QED BY <1>1, <2>2, <2>3
<1>7. \A j \in 0 .. N : \A k \in j .. N : After(ls, j) <= After(ls, k)
  BY <1>2, <1>4
<1> QED BY <1>2, <1>3, <1>5, <1>6, <1>7 DEF N

LEMMA AfterSameLines ==
    ASSUME NEW ls \in Seq(Strings), NEW ms \in Seq(Strings), NEW n \in Nat,
           n <= Len(ls), n <= Len(ms), \A k \in 1 .. n : ls[k] = ms[k]
    PROVE  After(ls, n) = After(ms, n)
<1>1. ASSUME NEW k \in 1 .. n PROVE Lengths(ls)[k] = Lengths(ms)[k]
  <2>1. k \in 1 .. Len(ls) /\ k \in 1 .. Len(ms)
    OBVIOUS
  <2>2. Lengths(ls)[k] = Len(ls[k]) + 2 /\ Lengths(ms)[k] = Len(ms[k]) + 2
    BY <2>1, LinesHaveLengths
  <2> QED BY <2>2
<1> QED BY <1>1, LinesHaveLengths, SumsOfPrefix DEF After

LEMMA AfterOneMore ==
    ASSUME NEW ls \in Seq(Strings), NEW l \in Strings
    PROVE  /\ \A k \in 0 .. Len(ls) : After(Append(ls, l), k) = After(ls, k)
           /\ After(Append(ls, l), Len(ls) + 1) = After(ls, Len(ls)) + Len(l) + 2
<1> DEFINE ms == Append(ls, l)
<1>1. ms \in Seq(Strings) /\ Len(ms) = Len(ls) + 1 /\ ms[Len(ls) + 1] = l
      /\ (\A k \in 1 .. Len(ls) : ms[k] = ls[k]) /\ Len(ls) \in Nat
  OBVIOUS
<1> HIDE DEF ms
<1>2. \A k \in 0 .. Len(ls) : After(ms, k) = After(ls, k)
  <2> SUFFICES ASSUME NEW k \in 0 .. Len(ls) PROVE After(ms, k) = After(ls, k)
    OBVIOUS
  <2>1. k \in Nat /\ k <= Len(ms) /\ k <= Len(ls) /\ \A j \in 1 .. k : ms[j] = ls[j]
    BY <1>1
  <2> QED BY <1>1, <2>1, AfterSameLines
<1>3. Len(ls) + 1 \in 1 .. Len(ms) /\ (Len(ls) + 1) - 1 = Len(ls)
  BY <1>1
<1>4. After(ms, Len(ls) + 1) = After(ms, Len(ls)) + Len(l) + 2
  BY <1>1, <1>3, AfterLines
<1> QED BY <1>1, <1>2, <1>4 DEF ms

IsResponse(r) == r.lines \in Seq(Strings) /\ r.data \in Strings
AreResponses(rs) == Len(rs) \in Nat /\ \A n \in 1 .. Len(rs) : IsResponse(rs[n])

LEMMA ResponsesHaveSizes ==
    ASSUME NEW rs, AreResponses(rs)
    PROVE  /\ Sizes(rs) \in Seq(Nat)
           /\ Len(Sizes(rs)) = Len(rs)
           /\ \A n \in 1 .. Len(rs) : Sizes(rs)[n] = Size(rs[n]) /\ Size(rs[n]) \in Nat
<1>1. ASSUME NEW n \in 1 .. Len(rs) PROVE Size(rs[n]) \in Nat
  <2>1. rs[n].lines \in Seq(Strings) /\ rs[n].data \in Strings
    BY DEF AreResponses, IsResponse
  <2>2. Len(rs[n].lines) \in 0 .. Len(rs[n].lines)
    BY <2>1
  <2>3. After(rs[n].lines, Len(rs[n].lines)) \in Nat
    BY <2>1, <2>2, AfterLines
  <2>4. Len(rs[n].data) \in Nat
    BY <2>1 DEF Strings
  <2> QED BY <2>3, <2>4 DEF Size
<1> QED BY <1>1 DEF Sizes, AreResponses

LEMMA Totals ==
    ASSUME NEW rs, AreResponses(rs)
    PROVE  /\ Total(rs, 0) = 0
           /\ \A n \in 0 .. Len(rs) : Total(rs, n) \in Nat
           /\ \A n \in 1 .. Len(rs) : Total(rs, n) = Total(rs, n - 1) + Size(rs[n])
           /\ \A m \in 0 .. Len(rs) : \A n \in m .. Len(rs) : Total(rs, m) <= Total(rs, n)
<1> DEFINE f == Sizes(rs)
           N == Len(rs)
<1>1. f \in Seq(Nat) /\ Len(f) = N /\ N \in Nat /\ \A n \in 1 .. N : f[n] = Size(rs[n])
  BY ResponsesHaveSizes DEF AreResponses
<1>2. \A k : Total(rs, k) = Sums(f)[k]
  BY DEF Total
<1> HIDE DEF f, N
<1>3. /\ Sums(f) \in [0 .. N -> Nat]
      /\ Sums(f)[0] = 0
      /\ \A k \in 1 .. N : Sums(f)[k] = Sums(f)[k - 1] + f[k]
  BY <1>1, SumsAreSums
<1>4. \A j \in 0 .. N : \A k \in j .. N : Sums(f)[j] <= Sums(f)[k]
  BY <1>1, SumsGrow
<1>5. \A k \in 0 .. N : Total(rs, k) \in Nat
  BY <1>2, <1>3
<1>6. \A k \in 1 .. N : Total(rs, k) = Total(rs, k - 1) + Size(rs[k])
  BY <1>1, <1>2, <1>3
<1>7. \A j \in 0 .. N : \A k \in j .. N : Total(rs, j) <= Total(rs, k)
  BY <1>2, <1>4
<1> QED BY <1>2, <1>3, <1>5, <1>6, <1>7 DEF N

SameAs(r, q) == r.lines = q.lines /\ r.data = q.data

LEMMA TotalOfSame ==
    ASSUME NEW rs, NEW qs, AreResponses(rs), AreResponses(qs), NEW n \in Nat,
           n <= Len(rs), n <= Len(qs), \A k \in 1 .. n : SameAs(rs[k], qs[k])
    PROVE  Total(rs, n) = Total(qs, n)
<1>1. \A k \in 1 .. n : k \in 1 .. Len(rs) /\ k \in 1 .. Len(qs)
  BY DEF AreResponses
<1>2. \A k \in 1 .. n : Size(rs[k]) = Size(qs[k])
  BY DEF SameAs, Size
<1>3. \A k \in 1 .. n : Sizes(rs)[k] = Sizes(qs)[k]
  BY <1>1, <1>2, ResponsesHaveSizes
<1> QED BY <1>3, ResponsesHaveSizes, SumsOfPrefix DEF Total

-----------------------------------------------------------------------------
LEMMA GoesOnInMore ==
    ASSUME NEW text \in Strings, NEW more \in Strings, NEW from \in Nat, NEW l \in Strings,
           GoesOn(text, from, l)
    PROVE  GoesOn(text \o more, from, l)
BY DEF GoesOn, Strings

LEMMA GoesOnBehind ==
    ASSUME NEW text \in Strings, NEW before \in Strings, NEW from \in Nat, NEW l \in Strings,
           GoesOn(text, from, l)
    PROVE  GoesOn(before \o text, Len(before) + from, l)
<1>1. /\ Len(before) \in Nat /\ Len(text) \in Nat /\ Len(l) \in Nat
      /\ Len(before \o text) = Len(before) + Len(text)
  BY DEF Strings
<1>2. ASSUME NEW k \in 1 .. Len(l) PROVE (before \o text)[Len(before) + from + k] = l[k]
  <2>1. from + k \in 1 .. Len(text) /\ text[from + k] = l[k]
    BY <1>1 DEF GoesOn
  <2>2. (before \o text)[Len(before) + (from + k)] = text[from + k]
    BY <1>1, <2>1 DEF Strings
  <2>3. Len(before) + (from + k) = Len(before) + from + k
    BY <1>1
  <2> QED BY <2>1, <2>2, <2>3
<1> QED BY <1>1, <1>2 DEF GoesOn

LEMMA GoesOnAtEnd ==
    ASSUME NEW before \in Strings, NEW l \in Strings
    PROVE  GoesOn(before \o l, Len(before), l)
BY DEF GoesOn, Strings

LEMMA EndedLines ==
    ASSUME NEW l \in Strings
    PROVE  /\ WithEnd(l) \in Strings
           /\ Len(l) \in Nat
           /\ Len(WithEnd(l)) = Len(l) + 2
           /\ \A k \in 1 .. Len(l) : WithEnd(l)[k] = l[k]
           /\ WithEnd(l)[Len(l) + 1] = CR
           /\ WithEnd(l)[Len(l) + 2] = LF
<1>1. CR \in Letters /\ LF \in Letters
  BY DEF Letters
<1> HIDE DEF Letters
<1> QED BY <1>1 DEF WithEnd, Strings

LEMMA HasLinesInMore ==
    ASSUME NEW text \in Strings, NEW more \in Strings, NEW from \in Nat, NEW ls \in Seq(Strings),
           HasLines(text, from, ls)
    PROVE  HasLines(text \o more, from, ls)
<1> SUFFICES ASSUME NEW k \in 1 .. Len(ls)
             PROVE  GoesOn(text \o more, from + After(ls, k - 1), WithEnd(ls[k]))
  BY DEF HasLines
<1>1. k - 1 \in 0 .. Len(ls) /\ ls[k] \in Strings
  OBVIOUS
<1>2. from + After(ls, k - 1) \in Nat /\ WithEnd(ls[k]) \in Strings
  <2>1. After(ls, k - 1) \in Nat
    BY <1>1, AfterLines
  <2> QED BY <1>1, <2>1, EndedLines
<1>3. GoesOn(text, from + After(ls, k - 1), WithEnd(ls[k]))
  BY DEF HasLines
<1> QED BY <1>2, <1>3, GoesOnInMore

LEMMA HasLinesBehind ==
    ASSUME NEW text \in Strings, NEW before \in Strings, NEW ls \in Seq(Strings),
           HasLines(text, 0, ls)
    PROVE  HasLines(before \o text, Len(before), ls)
<1> SUFFICES ASSUME NEW k \in 1 .. Len(ls)
             PROVE  GoesOn(before \o text, Len(before) + After(ls, k - 1), WithEnd(ls[k]))
  BY DEF HasLines
<1>1. k - 1 \in 0 .. Len(ls) /\ ls[k] \in Strings
  OBVIOUS
<1>2. After(ls, k - 1) \in Nat /\ WithEnd(ls[k]) \in Strings
  BY <1>1, AfterLines, EndedLines
<1>3. GoesOn(text, 0 + After(ls, k - 1), WithEnd(ls[k]))
  BY DEF HasLines
<1>4. GoesOn(text, After(ls, k - 1), WithEnd(ls[k]))
  BY <1>2, <1>3
<1> QED BY <1>2, <1>4, GoesOnBehind

LEMMA HasOneMoreLine ==
    ASSUME NEW text \in Strings, NEW ls \in Seq(Strings), NEW l \in Strings,
           HasLines(text, 0, ls), Len(text) = After(ls, Len(ls))
    PROVE  /\ HasLines(text \o WithEnd(l), 0, Append(ls, l))
           /\ Len(text \o WithEnd(l)) = After(Append(ls, l), Len(Append(ls, l)))
<1> DEFINE ms == Append(ls, l)
           more == text \o WithEnd(l)
<1>1. /\ ms \in Seq(Strings) /\ Len(ms) = Len(ls) + 1 /\ ms[Len(ls) + 1] = l /\ Len(ls) \in Nat
      /\ \A k \in 1 .. Len(ls) : ms[k] = ls[k]
  OBVIOUS
<1>2. WithEnd(l) \in Strings /\ Len(WithEnd(l)) = Len(l) + 2 /\ Len(l) \in Nat
  BY EndedLines
<1>3. HasLines(more, 0, ls)
  BY <1>2, HasLinesInMore
<1>4. GoesOn(more, Len(text), WithEnd(l))
  BY <1>2, GoesOnAtEnd
<1>5. /\ \A k \in 0 .. Len(ls) : After(ms, k) = After(ls, k)
      /\ After(ms, Len(ls) + 1) = After(ls, Len(ls)) + Len(l) + 2
  BY AfterOneMore
<1>6. Len(more) = Len(text) + Len(l) + 2
  BY <1>2 DEF Strings
<1> HIDE DEF ms, more
<1>7. ASSUME NEW k \in 1 .. Len(ms) PROVE GoesOn(more, 0 + After(ms, k - 1), WithEnd(ms[k]))
  <2>1. k - 1 \in 0 .. Len(ls) /\ After(ms, k - 1) = After(ls, k - 1)
    BY <1>1, <1>5
  <2>2. CASE k \in 1 .. Len(ls)
    BY <1>1, <1>3, <2>1, <2>2 DEF HasLines
  <2>3. CASE k = Len(ls) + 1
    <3>1. k - 1 = Len(ls) /\ ms[k] = l
      BY <1>1, <2>3
    <3>2. 0 + After(ms, k - 1) = Len(text)
      BY <2>1, <3>1 DEF Strings
    <3> QED BY <1>4, <3>1, <3>2
  <2> QED BY <1>1, <2>2, <2>3
<1> QED BY <1>1, <1>5, <1>6, <1>7 DEF HasLines, ms, more

-----------------------------------------------------------------------------
(* The worker.                                                             *)

LEMMA LettersAreThere ==
    /\ CR \in Letters /\ LF \in Letters /\ CR # LF
    /\ {SP, HTTP, ":", ".", "1", "text", "now", "NaiveServ"} \subseteq Letters \ {LF}
    /\ Digits \subseteq Letters \ {LF}
    /\ KnownNames \subseteq Letters \ {LF}
    /\ Symbols \subseteq Letters
    /\ "Content-Length" \in KnownNames
BY ResponsesAssumption DEF Letters, CR, LF, SP, HTTP, Digits, AutoFilled

LEMMA LinesWithoutEnd ==
    ASSUME NEW l \in Seq(Letters \ {LF})
    PROVE  l \in Strings /\ \A k \in 1 .. Len(l) : l[k] # LF
BY DEF Strings

LEMMA NumbersAreLines ==
    ASSUME NEW n \in Nat
    PROVE  DecimalText(n) \in Seq(Letters \ {LF})
<1>1. DecimalText(n) \in Seq(Digits)
  BY NumbersAreRead
<1> QED BY <1>1, LettersAreThere

LEMMA AutoFilledFields ==
    ASSUME NEW r \in Responses
    PROVE  /\ r.status \in Nat
           /\ r.data \in Strings /\ Len(r.data) \in Nat
           /\ DOMAIN AutoFill(r.fields, r.data) \subseteq KnownNames
           /\ \A n \in DOMAIN AutoFill(r.fields, r.data) :
                AutoFill(r.fields, r.data)[n] \in Seq(Letters \ {LF})
           /\ "Content-Length" \in DOMAIN AutoFill(r.fields, r.data)
           /\ AutoFill(r.fields, r.data)["Content-Length"] = DecimalText(Len(r.data))
<1>1. /\ r.status \in Nat /\ r.data \in Seq(Symbols)
      /\ DOMAIN r.fields \subseteq KnownNames
      /\ \A n \in DOMAIN r.fields : r.fields[n] \in Seq(Symbols \ {LF})
  BY ResponsesAssumption
<1>2. r.data \in Strings /\ Len(r.data) \in Nat
  BY <1>1, LettersAreThere DEF Strings
<1>3. \A n \in DOMAIN r.fields : r.fields[n] \in Seq(Letters \ {LF})
  BY <1>1, LettersAreThere
<1>4. /\ DecimalText(Len(r.data)) \in Seq(Letters \ {LF})
      /\ <<"now">> \in Seq(Letters \ {LF}) /\ <<"NaiveServ">> \in Seq(Letters \ {LF})
  BY <1>2, NumbersAreLines, LettersAreThere
<1>5. AutoFilled \subseteq KnownNames
  BY ResponsesAssumption
<1> DEFINE f == r.fields
           g == Put(f, "Date", <<"now">>)
           h == Put(g, "Content-Length", DecimalText(Len(r.data)))
           i == Put(h, "Server", <<"NaiveServ">>)
<1> HIDE DEF f
<1>6. /\ DOMAIN g = DOMAIN f \cup {"Date"}
      /\ \A n \in DOMAIN g : g[n] = IF n = "Date" THEN <<"now">> ELSE f[n]
  BY DEF Put
<1> HIDE DEF g
<1>7. /\ DOMAIN h = DOMAIN g \cup {"Content-Length"}
      /\ \A n \in DOMAIN h : h[n] = IF n = "Content-Length" THEN DecimalText(Len(r.data)) ELSE g[n]
  BY DEF Put
<1> HIDE DEF h
<1>8. /\ DOMAIN i = DOMAIN h \cup {"Server"}
      /\ \A n \in DOMAIN i : i[n] = IF n = "Server" THEN <<"NaiveServ">> ELSE h[n]
  BY DEF Put
<1> HIDE DEF i
<1>9. AutoFill(r.fields, r.data) = i
  BY DEF AutoFill, f, g, h, i
<1>10. DOMAIN i \subseteq KnownNames
  BY <1>1, <1>5, <1>6, <1>7, <1>8 DEF AutoFilled, f
<1>11. \A n \in DOMAIN i : i[n] \in Seq(Letters \ {LF})
  BY <1>3, <1>4, <1>6, <1>7, <1>8 DEF f
<1>12. "Content-Length" \in DOMAIN i /\ i["Content-Length"] = DecimalText(Len(r.data))
  BY <1>7, <1>8
<1> QED BY <1>1, <1>2, <1>9, <1>10, <1>11, <1>12

LEMMA StatusLines ==
    ASSUME NEW status \in Nat, NEW n \in Nat
    PROVE  StatusLine(status) \in Strings /\ IsLine(StatusLine(status), n)
<1> DEFINE begin == <<HTTP, "1", ".", "1", SP>>
           number == DecimalText(status)
           end == <<SP, "text">>
<1>1. /\ begin \in Seq(Letters \ {LF}) /\ end \in Seq(Letters \ {LF})
      /\ number \in Seq(Letters \ {LF})
      /\ Len(begin) = 5 /\ begin[1] = HTTP
  BY LettersAreThere, NumbersAreLines
<1>2. StatusLine(status) = begin \o number \o end
  BY DEF StatusLine
<1> HIDE DEF begin, number, end
<1>3. /\ StatusLine(status) \in Seq(Letters \ {LF})
      /\ Len(StatusLine(status)) > 0
      /\ StatusLine(status)[1] = HTTP
  <2> DEFINE X == Letters \ {LF}
             two == begin \o number
  <2>1. begin \in Seq(X) /\ end \in Seq(X) /\ number \in Seq(X)
    BY <1>1
  <2> HIDE DEF X
  <2>2. two \in Seq(X) /\ Len(two) >= 5 /\ two[1] = HTTP
    <3>1. two \in Seq(X) /\ Len(two) = Len(begin) + Len(number)
      BY <2>1
    <3>2. Len(number) \in Nat /\ 1 \in 1 .. Len(begin)
      BY <1>1, <2>1
    <3>3. two[1] = begin[1]
      BY <2>1, <3>2
    <3> HIDE DEF two
    <3> QED BY <1>1, <3>1, <3>2, <3>3
  <2> HIDE DEF two
  <2>3. two \o end \in Seq(X) /\ Len(two \o end) > 0 /\ (two \o end)[1] = HTTP
    BY <2>1, <2>2
  <2> QED BY <1>2, <2>3 DEF X, two
<1>4. HTTP # "Content-Length"
  BY DEF HTTP
<1> HIDE DEF IsLine
<1> QED BY <1>3, <1>4, LinesWithoutEnd DEF IsLine

LEMMA FieldLines ==
    ASSUME NEW name \in KnownNames, NEW value \in Seq(Letters \ {LF})
    PROVE  /\ Field(name, value) \in Seq(Letters \ {LF})
           /\ Len(Field(name, value)) > 0
           /\ Field(name, value)[1] = name
<1>1. <<name, ":", SP>> \in Seq(Letters \ {LF}) /\ Len(<<name, ":", SP>>) = 3
  BY LettersAreThere
<1> QED BY <1>1 DEF Field

LEMMA BeginResponseStep ==
    ASSUME ResponseIInv, BeginResponse
    PROVE  ResponseIInv'
<1> USE DEF ResponseIInv
<1>1. PICK r \in Responses :
        /\ fieldInfo' = AutoFill(r.fields, r.data)
        /\ body' = r.data
        /\ written' = <<StatusLine(r.status)>>
        /\ oss' = WithEnd(StatusLine(r.status))
  BY DEF BeginResponse
<1>2. next' = 1 /\ UNCHANGED <<sent, stream, pos, phase, lines, length, found>>
  BY DEF BeginResponse, client
<1> DEFINE l == StatusLine(r.status)
           fields == AutoFill(r.fields, r.data)
<1>3. /\ r.status \in Nat
      /\ r.data \in Strings /\ Len(r.data) \in Nat
      /\ DOMAIN fields \subseteq KnownNames
      /\ \A n \in DOMAIN fields : fields[n] \in Seq(Letters \ {LF})
      /\ "Content-Length" \in DOMAIN fields
      /\ fields["Content-Length"] = DecimalText(Len(r.data))
  BY AutoFilledFields
<1> HIDE DEF fields
<1>4. l \in Strings /\ IsLine(l, Len(r.data))
  BY <1>3, StatusLines
<1> HIDE DEF l
<1>5. WithEnd(l) \in Strings /\ written' \in Seq(Strings) /\ written' = <<l>>
  BY <1>1, <1>4, EndedLines DEF l
<1>6. ResponseTypeOK'
  <2>1. 1 \in -1 .. Len(FieldNames) + 1
    BY ResponsesAssumption
  <2>2. DOMAIN fieldInfo' \subseteq KnownNames
        /\ \A n \in DOMAIN fieldInfo' : fieldInfo'[n] \in Seq(Letters \ {LF})
    BY <1>1, <1>3 DEF fields
  <2> QED BY <1>1, <1>2, <1>3, <1>5, <2>1, <2>2 DEF ResponseTypeOK, l
<1>7. WritesLines'
  <2>1. HasLines(<<>>, 0, <<>>) /\ Len(<<>>) = After(<<>>, Len(<<>>)) /\ <<>> \in Strings
        /\ <<>> \in Seq(Strings)
    <3> DEFINE no == <<>>
    <3>1. no \in Seq(Strings) /\ Len(no) = 0 /\ no \in Strings
      BY DEF Strings
    <3> HIDE DEF no
    <3>2. After(no, 0) = 0
      BY <3>1, AfterLines
    <3>3. HasLines(no, 0, no)
      BY <3>1 DEF HasLines
    <3> QED BY <3>1, <3>2, <3>3 DEF no
  <2>2. HasLines(<<>> \o WithEnd(l), 0, Append(<<>>, l))
        /\ Len(<<>> \o WithEnd(l)) = After(Append(<<>>, l), Len(Append(<<>>, l)))
    BY <1>4, <2>1, HasOneMoreLine
  <2>3. <<>> \o WithEnd(l) = oss' /\ Append(<<>>, l) = written'
    BY <1>1, <1>5 DEF l, Strings
  <2>4. \A k \in 1 .. 1 - 1 : FALSE
    OBVIOUS
  <2>5. \A k \in 1 .. Len(written') : IsLine(written'[k], Len(body'))
    BY <1>1, <1>4, <1>5
  <2>6. "Content-Length" \in DOMAIN fieldInfo'
        /\ fieldInfo'["Content-Length"] = DecimalText(Len(body'))
    BY <1>1, <1>3 DEF fields
  <2> QED BY <1>2, <2>2, <2>3, <2>4, <2>5, <2>6 DEF WritesLines
<1>8. SentLines' /\ StreamHolds' /\ ClientFollows'
  BY <1>2 DEF SentLines, StreamHolds, ClientFollows, ReadSoFar, Whole, Response
<1> QED BY <1>6, <1>7, <1>8

LEMMA WriteFieldStep ==
    ASSUME ResponseIInv, WriteField
    PROVE  ResponseIInv'
<1> USE DEF ResponseIInv
<1> DEFINE name == FieldNames[next]
           l == Field(name, fieldInfo[name])
<1>1. /\ next \in DOMAIN FieldNames /\ next' = next + 1
      /\ UNCHANGED <<fieldInfo, body, sent, stream, pos, phase, lines, length, found>>
      /\ IF name \in DOMAIN fieldInfo
         THEN written' = Append(written, l) /\ oss' = oss \o WithEnd(l)
         ELSE UNCHANGED <<written, oss>>
  BY DEF WriteField, client
<1>2. next \in 1 .. Len(FieldNames) /\ next' \in -1 .. Len(FieldNames) + 1 /\ next > 0
  BY <1>1, ResponsesAssumption
<1>3. /\ \A k \in 1 .. Len(written) : IsLine(written[k], Len(body))
      /\ "Content-Length" \in DOMAIN fieldInfo
      /\ fieldInfo["Content-Length"] = DecimalText(Len(body))
      /\ (\E k \in 1 .. next - 1 : FieldNames[k] = "Content-Length") => TellsLength(written)
      /\ HasLines(oss, 0, written)
      /\ Len(oss) = After(written, Len(written))
  BY <1>2 DEF WritesLines
<1>4. /\ oss \in Strings /\ written \in Seq(Strings) /\ body \in Strings
      /\ DOMAIN fieldInfo \subseteq KnownNames
      /\ \A n \in DOMAIN fieldInfo : fieldInfo[n] \in Seq(Letters \ {LF})
  BY DEF ResponseTypeOK
<1>5. SentLines' /\ StreamHolds' /\ ClientFollows'
  BY <1>1 DEF SentLines, StreamHolds, ClientFollows, ReadSoFar, Whole, Response
<1>6. \A k \in 1 .. next' - 1 : k = next \/ k \in 1 .. next - 1
  BY <1>1, <1>2
<1>7. CASE name \in DOMAIN fieldInfo
  <2>1. written' = Append(written, l) /\ oss' = oss \o WithEnd(l)
    BY <1>1, <1>7
  <2>2. l \in Seq(Letters \ {LF}) /\ Len(l) > 0 /\ l[1] = name
    BY <1>4, <1>7, FieldLines
  <2>3. name = "Content-Length" => l = Field("Content-Length", DecimalText(Len(body)))
    BY <1>3
  <2> HIDE DEF l, name
  <2>4. l \in Strings /\ IsLine(l, Len(body))
    BY <2>2, <2>3, LinesWithoutEnd DEF IsLine
  <2>5. WithEnd(l) \in Strings
    BY <2>4, EndedLines
  <2>6. oss' \in Strings
    BY <1>4, <2>1, <2>5 DEF Strings
  <2>7. /\ written' \in Seq(Strings) /\ Len(written') = Len(written) + 1
        /\ Len(written) \in Nat /\ written'[Len(written) + 1] = l
        /\ \A k \in 1 .. Len(written) : written'[k] = written[k]
    BY <1>4, <2>1, <2>4
  <2>8. ResponseTypeOK'
    BY <1>1, <1>2, <2>6, <2>7 DEF ResponseTypeOK
  <2>9. HasLines(oss', 0, written') /\ Len(oss') = After(written', Len(written'))
    BY <1>3, <1>4, <2>1, <2>4, HasOneMoreLine
  <2>10. \A k \in 1 .. Len(written') : IsLine(written'[k], Len(body'))
    BY <1>1, <1>3, <2>4, <2>7
  <2>11. (\E k \in 1 .. next' - 1 : FieldNames[k] = "Content-Length") => TellsLength(written')
    <3>1. TellsLength(written) => TellsLength(written')
      BY <2>7 DEF TellsLength
    <3>2. name = "Content-Length" => TellsLength(written')
      BY <2>2, <2>7 DEF TellsLength
    <3> QED BY <1>3, <1>6, <3>1, <3>2 DEF name
  <2> QED BY <1>1, <1>3, <1>5, <2>8, <2>9, <2>10, <2>11 DEF WritesLines
<1>8. CASE name \notin DOMAIN fieldInfo
  <2>1. UNCHANGED <<written, oss>>
    BY <1>1, <1>8
  <2>2. name # "Content-Length"
    BY <1>3, <1>8
  <2>3. ResponseTypeOK'
    BY <1>1, <1>2, <2>1 DEF ResponseTypeOK
  <2>4. (\E k \in 1 .. next' - 1 : FieldNames[k] = "Content-Length") => TellsLength(written')
    BY <1>3, <1>6, <2>1, <2>2
  <2>5. WritesLines'
    BY <1>1, <1>3, <2>1, <2>4 DEF WritesLines
  <2> QED BY <1>5, <2>3, <2>5
<1> QED BY <1>7, <1>8

-----------------------------------------------------------------------------
(* Where the client is.                                                    *)

LEMMA AllAreResponses ==
    /\ \A rs \in Seq([lines : Seq(Strings), data : Strings, whole : BOOLEAN]) : AreResponses(rs)
    /\ \A rs \in Seq([lines : Seq(Strings), data : Strings]) : AreResponses(rs)
<1> DEFINE R == [lines : Seq(Strings), data : Strings, whole : BOOLEAN]
           Q == [lines : Seq(Strings), data : Strings]
<1>1. (\A r \in R : IsResponse(r)) /\ (\A r \in Q : IsResponse(r))
  BY DEF IsResponse
<1> HIDE DEF R, Q
<1>2. \A rs \in Seq(R) : AreResponses(rs)
  BY <1>1 DEF AreResponses
<1>3. \A rs \in Seq(Q) : AreResponses(rs)
  BY <1>1 DEF AreResponses
<1> QED BY <1>2, <1>3 DEF R, Q

LEMMA NoLines == <<>> \in Seq(Strings) /\ Len(<<>>) = 0 /\ After(<<>>, 0) = 0
<1> DEFINE no == <<>>
<1>1. no \in Seq(Strings) /\ Len(no) = 0
  OBVIOUS
<1> HIDE DEF no
<1>2. After(no, 0) = 0
  BY <1>1, AfterLines
<1> QED BY <1>1, <1>2 DEF no

LEMMA SentAndFound ==
    ASSUME ResponseTypeOK
    PROVE  /\ AreResponses(sent) /\ AreResponses(found)
           /\ Len(sent) \in Nat /\ Len(found) \in Nat /\ Len(lines) \in Nat /\ Len(stream) \in Nat
           /\ DOMAIN sent = 1 .. Len(sent) /\ DOMAIN found = 1 .. Len(found)
           /\ pos \in Nat /\ pos <= Len(stream) /\ length \in Nat
           /\ lines \in Seq(Strings) /\ stream \in Strings
<1>1. AreResponses(sent) /\ Len(sent) \in Nat /\ DOMAIN sent = 1 .. Len(sent)
  <2> DEFINE R == [lines : Seq(Strings), data : Strings, whole : BOOLEAN]
  <2>1. sent \in Seq(R)
    BY DEF ResponseTypeOK
  <2>2. AreResponses(sent)
    BY <2>1, AllAreResponses
  <2> HIDE DEF R
  <2> QED BY <2>1, <2>2
<1>2. AreResponses(found) /\ Len(found) \in Nat /\ DOMAIN found = 1 .. Len(found)
  <2> DEFINE R == [lines : Seq(Strings), data : Strings]
  <2>1. found \in Seq(R)
    BY DEF ResponseTypeOK
  <2>2. AreResponses(found)
    BY <2>1, AllAreResponses
  <2> HIDE DEF R
  <2> QED BY <2>1, <2>2
<1>3. Len(stream) \in Nat /\ stream \in Strings /\ pos \in Nat /\ pos <= Len(stream)
  BY DEF ResponseTypeOK, Strings
<1>4. lines \in Seq(Strings) /\ Len(lines) \in Nat /\ length \in Nat
  BY DEF ResponseTypeOK
<1> QED BY <1>1, <1>2, <1>3, <1>4

LEMMA FoundTotal ==
    ASSUME ResponseTypeOK, ClientFollows, NEW n \in Nat,
           n <= Len(sent), n <= Len(found), Whole(n)
    PROVE  Total(found, n) = Total(sent, n)
<1>1. ASSUME NEW k \in 1 .. n PROVE SameAs(found[k], sent[k])
  <2>1. k \in DOMAIN sent \cap DOMAIN found
    BY SentAndFound
  <2>2. Whole(k)
    BY DEF Whole
  <2>3. found[k] = Response(k)
    BY <2>1, <2>2 DEF ClientFollows
  <2> QED BY <2>3 DEF Response, SameAs
<1>2. AreResponses(sent) /\ AreResponses(found)
  BY SentAndFound
<1> QED BY <1>1, <1>2, TotalOfSame

LEMMA AllIsRead ==
    ASSUME ResponseIInv, Whole(Len(sent)), Len(found) >= Len(sent)
    PROVE  /\ Len(found) = Len(sent) /\ lines = <<>> /\ phase = "lines"
           /\ pos = Len(stream)
<1> USE DEF ResponseIInv
<1>1. Len(found) = Len(sent) /\ lines = <<>> /\ phase = "lines"
  BY DEF ClientFollows
<1>2. Len(sent) \in Nat /\ Len(stream) \in Nat /\ lines \in Seq(Strings) /\ Len(found) \in Nat
  BY SentAndFound
<1>3. Total(found, Len(sent)) = Total(sent, Len(sent))
  BY <1>1, <1>2, FoundTotal
<1>4. Len(stream) = Total(sent, Len(sent))
  BY DEF StreamHolds
<1>5. After(lines, Len(lines)) = 0
  <2>1. After(lines, 0) = 0
    BY <1>2, AfterLines
  <2>2. Len(lines) = 0
    BY <1>1
  <2> QED BY <2>1, <2>2
<1>6. pos = Total(found, Len(found)) + 0 + 0
  <2>1. phase # "data"
    BY <1>1
  <2>2. pos = Total(found, Len(found)) + After(lines, Len(lines)) + 0
    BY <2>1 DEF ClientFollows, ReadSoFar
  <2> QED BY <1>5, <2>2
<1> QED BY <1>1, <1>2, <1>3, <1>4, <1>6

\* What the stream holds behind the line that ends at pos.
AtLine(l) ==
    /\ l \in Strings /\ Len(l) \in Nat /\ Len(l) > 0
    /\ pos + Len(l) + 2 <= Len(stream)
    /\ \A k \in 1 .. Len(l) : stream[pos + k] = l[k] /\ l[k] # LF
    /\ stream[pos + Len(l) + 1] = CR
    /\ stream[pos + Len(l) + 2] = LF
AtData(at, d) ==
    /\ d \in Strings /\ Len(d) \in Nat
    /\ at + 2 + Len(d) <= Len(stream)
    /\ stream[at + 1] = CR
    /\ stream[at + 2] = LF
    /\ \A k \in 1 .. Len(d) : stream[at + 2 + k] = d[k]

LEMMA LineGoesOn ==
    ASSUME ResponseTypeOK, NEW l \in Strings, NEW n, IsLine(l, n), GoesOn(stream, pos, WithEnd(l))
    PROVE  AtLine(l)
<1>1. /\ Len(l) \in Nat /\ Len(WithEnd(l)) = Len(l) + 2
      /\ \A k \in 1 .. Len(l) : WithEnd(l)[k] = l[k]
      /\ WithEnd(l)[Len(l) + 1] = CR
      /\ WithEnd(l)[Len(l) + 2] = LF
  BY EndedLines
<1>2. Len(l) > 0 /\ \A k \in 1 .. Len(l) : l[k] # LF
  BY DEF IsLine
<1>3. pos \in Nat /\ Len(stream) \in Nat
  BY SentAndFound
<1>4. pos + Len(WithEnd(l)) <= Len(stream)
      /\ \A k \in 1 .. Len(WithEnd(l)) : stream[pos + k] = WithEnd(l)[k]
  BY DEF GoesOn
<1> DEFINE w == WithEnd(l)
           L == Len(l)
<1> HIDE DEF w
<1>5. /\ L \in Nat /\ Len(w) = L + 2 /\ \A k \in 1 .. Len(w) : stream[pos + k] = w[k]
      /\ w[L + 1] = CR /\ w[L + 2] = LF /\ \A k \in 1 .. L : w[k] = l[k]
  BY <1>1, <1>4 DEF w
<1> HIDE DEF L
<1>6. stream[pos + (L + 1)] = CR /\ stream[pos + (L + 2)] = LF
  <2>1. L + 1 \in 1 .. Len(w) /\ L + 2 \in 1 .. Len(w)
    BY <1>5
  <2> QED BY <1>5, <2>1
<1>7. pos + (L + 1) = pos + L + 1 /\ pos + (L + 2) = pos + L + 2
  BY <1>3, <1>5
<1>8. \A k \in 1 .. L : stream[pos + k] = l[k]
  <2>1. \A k \in 1 .. L : k \in 1 .. Len(w)
    BY <1>5
  <2> QED BY <1>5, <2>1
<1>9. pos + L + 2 <= Len(stream)
  BY <1>3, <1>4, <1>5 DEF w
<1> QED BY <1>1, <1>2, <1>6, <1>7, <1>8, <1>9 DEF AtLine, L

LEMMA DataGoesOn ==
    ASSUME ResponseTypeOK, NEW d \in Strings, NEW at \in Nat, GoesOn(stream, at, <<CR, LF>> \o d)
    PROVE  AtData(at, d)
<1> DEFINE w == <<CR, LF>> \o d
           L == Len(d)
<1>1. L \in Nat /\ Len(w) = L + 2 /\ w[1] = CR /\ w[2] = LF /\ \A k \in 1 .. L : w[k + 2] = d[k]
  BY DEF Strings
<1>2. Len(stream) \in Nat
  BY SentAndFound
<1>3. at + Len(w) <= Len(stream) /\ \A k \in 1 .. Len(w) : stream[at + k] = w[k]
  BY DEF GoesOn
<1> HIDE DEF w, L
<1>4. stream[at + 1] = CR /\ stream[at + 2] = LF
  <2>1. 1 \in 1 .. Len(w) /\ 2 \in 1 .. Len(w)
    BY <1>1
  <2> QED BY <1>1, <1>3, <2>1
<1>5. ASSUME NEW k \in 1 .. L PROVE stream[at + 2 + k] = d[k]
  <2>1. Len(w) = L + 2 /\ L \in Nat
    BY <1>1
  <2>2. k + 2 \in 1 .. Len(w)
    BY <2>1
  <2>3. at + 2 + k = at + (k + 2)
    BY <2>1
  <2> QED BY <1>1, <1>3, <2>2, <2>3
<1>6. at + 2 + L <= Len(stream)
  BY <1>1, <1>2, <1>3
<1> QED BY <1>1, <1>4, <1>5, <1>6 DEF AtData, L

LEMMA ClientIsAt ==
    ASSUME ResponseIInv, NEW n \in DOMAIN sent, n = Len(found) + 1, Whole(n)
    PROVE  /\ sent[n].lines \in Seq(Strings) /\ Len(sent[n].lines) \in Nat
           /\ Len(lines) <= Len(sent[n].lines)
           /\ \A k \in 1 .. Len(lines) : lines[k] = sent[n].lines[k]
           /\ Len(lines) < Len(sent[n].lines) =>
                phase = "lines" /\ AtLine(sent[n].lines[Len(lines) + 1])
           /\ Len(lines) = Len(sent[n].lines) /\ phase = "lines" => AtData(pos, sent[n].data)
           /\ Len(lines) = Len(sent[n].lines) /\ phase = "data" => AtData(pos - 2, sent[n].data)
<1> USE DEF ResponseIInv
<1> DEFINE L == sent[n].lines
           D == sent[n].data
           m == Len(lines)
           base == Total(sent, n - 1)
<1>1. /\ n \in 1 .. Len(sent) /\ Len(found) \in Nat /\ Len(sent) \in Nat /\ m \in Nat
      /\ lines \in Seq(Strings) /\ pos \in Nat
      /\ AreResponses(sent) /\ phase \in {"lines", "data"}
  BY SentAndFound DEF ResponseTypeOK
<1>2. L \in Seq(Strings) /\ D \in Strings /\ Len(L) \in Nat
  BY <1>1 DEF AreResponses, IsResponse
<1>3. /\ m <= Len(L)
      /\ \A k \in 1 .. m : lines[k] = L[k]
      /\ phase = "data" => m = Len(L)
      /\ pos = Total(found, Len(found)) + After(lines, m) + (IF phase = "data" THEN 2 ELSE 0)
  BY DEF ClientFollows, ReadSoFar
<1>4. HasLines(stream, base, L) /\ GoesOn(stream, base + After(L, Len(L)), <<CR, LF>> \o D)
  BY DEF StreamHolds, HasResponse
<1>5. Total(found, Len(found)) = base
  <2>1. n - 1 \in Nat /\ n - 1 <= Len(sent) /\ n - 1 <= Len(found) /\ n - 1 = Len(found)
    BY <1>1
  <2>2. Whole(n - 1)
    BY <1>1 DEF Whole
  <2>3. Total(found, n - 1) = base
    BY <2>1, <2>2, FoundTotal
  <2> QED BY <2>1, <2>3
<1>6. base \in Nat
  <2>1. n - 1 \in 0 .. Len(sent)
    BY <1>1
  <2> QED BY <1>1, <2>1, Totals
<1> HIDE DEF L, D, m, base
<1>7. After(lines, m) = After(L, m) /\ After(L, m) \in Nat
  <2>1. m <= Len(lines)
    BY <1>1 DEF m
  <2>2. After(lines, m) = After(L, m)
    BY <1>1, <1>2, <1>3, <2>1, AfterSameLines
  <2>3. m \in 0 .. Len(L)
    BY <1>1, <1>2, <1>3
  <2>4. After(L, m) \in Nat
    BY <1>2, <2>3, AfterLines
  <2> QED BY <2>2, <2>4
<1>8. ASSUME m < Len(L) PROVE phase = "lines" /\ AtLine(L[m + 1])
  <2>1. phase = "lines"
    BY <1>1, <1>2, <1>3, <1>8
  <2>2. m + 1 \in 1 .. Len(L) /\ (m + 1) - 1 = m
    BY <1>1, <1>2, <1>8
  <2>3. GoesOn(stream, base + After(L, m), WithEnd(L[m + 1]))
    BY <1>4, <2>2 DEF HasLines
  <2>4. pos = base + After(L, m)
    BY <1>3, <1>5, <1>6, <1>7, <2>1
  <2>5. IsLine(L[m + 1], Len(D))
    BY <2>2 DEF SentLines, L, D
  <2>6. L[m + 1] \in Strings
    BY <1>2, <2>2
  <2>7. GoesOn(stream, pos, WithEnd(L[m + 1]))
    BY <2>3, <2>4
  <2> HIDE DEF ResponseIInv
  <2>8. AtLine(L[m + 1])
    <3>1. ResponseTypeOK
      BY DEF ResponseIInv
    <3> QED BY <2>5, <2>6, <2>7, <3>1, LineGoesOn
  <2> QED BY <2>1, <2>8
<1>9. ASSUME m = Len(L) PROVE AtData(base + After(L, m), D)
  <2>1. GoesOn(stream, base + After(L, m), <<CR, LF>> \o D)
    BY <1>4, <1>9
  <2>2. base + After(L, m) \in Nat
    BY <1>6, <1>7
  <2> QED BY <1>2, <2>1, <2>2, DataGoesOn
<1>10. phase = "lines" => pos = base + After(L, m)
  BY <1>3, <1>5, <1>6, <1>7
<1>11. phase = "data" => pos - 2 = base + After(L, m)
  BY <1>3, <1>5, <1>6, <1>7
<1> QED BY <1>2, <1>3, <1>8, <1>9, <1>10, <1>11 DEF L, D, m

\* The end that the client finds is that of the line that was sent.
LEMMA FirstEnds ==
    ASSUME ResponseIInv, NEW n \in DOMAIN sent, n = Len(found) + 1, Whole(n),
           phase = "lines", NEW e, IsFirstEnd(e)
    PROVE  /\ Len(lines) = Len(sent[n].lines) => e = pos + 2
           /\ Len(lines) < Len(sent[n].lines) =>
                e > pos + 2 /\ Line(e) = sent[n].lines[Len(lines) + 1]
<1> DEFINE L == sent[n].lines
           m == Len(lines)
<1>1. /\ e \in pos + 2 .. Len(stream) /\ stream[e - 1] = CR /\ stream[e] = LF
      /\ \A k \in pos + 2 .. e - 1 : ~(stream[k - 1] = CR /\ stream[k] = LF)
  BY DEF IsFirstEnd, IsCRLF
<1>2. pos \in Nat /\ Len(stream) \in Nat /\ stream \in Seq(Letters)
  <2>1. ResponseTypeOK
    BY DEF ResponseIInv
  <2> QED BY <2>1, SentAndFound DEF Strings
<1>3. /\ m < Len(L) => AtLine(L[m + 1])
      /\ m = Len(L) => AtData(pos, sent[n].data)
  BY ClientIsAt
<1> HIDE DEF m, L
<1>4. ASSUME m = Len(L) PROVE e = pos + 2
  <2>1. stream[pos + 1] = CR /\ stream[pos + 2] = LF
    BY <1>3, <1>4 DEF AtData
  <2>2. (pos + 2) - 1 = pos + 1
    BY <1>2
  <2>3. pos + 2 \notin pos + 2 .. e - 1
    BY <1>1, <2>1, <2>2
  <2> QED BY <1>1, <1>2, <2>3
<1>5. ASSUME m < Len(L) PROVE e > pos + 2 /\ Line(e) = L[m + 1]
  <2> DEFINE l == L[m + 1]
             z == Len(l)
  <2>1. /\ l \in Seq(Letters) /\ z \in Nat /\ z > 0
        /\ pos + z + 2 <= Len(stream)
        /\ \A k \in 1 .. z : stream[pos + k] = l[k] /\ l[k] # LF
        /\ stream[pos + z + 1] = CR
        /\ stream[pos + z + 2] = LF
    BY <1>3, <1>5 DEF AtLine, Strings
  <2>2. z = Len(l)
    OBVIOUS
  <2> HIDE DEF l, z
  <2>3. pos + z + 2 \notin pos + 2 .. e - 1
    <3>1. (pos + z + 2) - 1 = pos + z + 1
      BY <1>2, <2>1
    <3> QED BY <1>1, <2>1, <3>1
  <2>4. e - pos \in Nat /\ e - pos <= z + 2 /\ e - pos >= 2 /\ e = pos + (e - pos)
    BY <1>1, <1>2, <2>1, <2>3
  <2>5. e - pos \notin 1 .. z
    BY <1>1, <2>1, <2>4
  <2>6. e - pos # z + 1
    <3>1. pos + (z + 1) = pos + z + 1
      BY <1>2, <2>1
    <3> QED BY <1>1, <2>1, <2>4, <3>1, LettersAreThere
  <2>7. e = pos + z + 2 /\ e > pos + 2
    <3> DEFINE d == e - pos
    <3>1. d \in Nat /\ d >= 2 /\ d <= z + 2 /\ d \notin 1 .. z /\ d # z + 1 /\ e = pos + d
      BY <2>4, <2>5, <2>6
    <3> HIDE DEF d
    <3>2. d = z + 2
      BY <2>1, <3>1
    <3> QED BY <1>2, <2>1, <3>1, <3>2
  <2>8. Line(e) = SubSeq(stream, pos + 1, pos + z)
    <3>1. e - 2 = pos + z
      BY <1>2, <2>1, <2>7
    <3> QED BY <3>1 DEF Line
  <2>9. SubSeq(stream, pos + 1, pos + z) = l
    <3> DEFINE q == SubSeq(stream, pos + 1, pos + z)
    <3>1. q \in Seq(Letters) /\ Len(q) = z /\ \A k \in 1 .. z : q[k] = stream[pos + k]
      <4>1. pos + 1 \in 1 .. Len(stream) + 1 /\ pos + z \in pos + 1 - 1 .. Len(stream)
        BY <1>2, <2>1
      <4>2. /\ pos + 1 <= pos + z /\ (pos + z) - (pos + 1) + 1 = z
            /\ \A k \in 1 .. z : (pos + 1) + k - 1 = pos + k
        BY <1>2, <2>1
      <4> HIDE DEF q
      <4>3. /\ q \in Seq(Letters)
            /\ Len(q) = (pos + z) - (pos + 1) + 1
            /\ \A k \in 1 .. (pos + z) - (pos + 1) + 1 : q[k] = stream[(pos + 1) + k - 1]
        BY <1>2, <4>1, <4>2, SubSeqProperties DEF q
      <4> QED BY <4>2, <4>3
    <3> HIDE DEF q
    <3>2. \A k \in 1 .. z : q[k] = l[k]
      BY <2>1, <3>1
    <3>3. q = l
      BY <2>1, <2>2, <3>1, <3>2
    <3> QED BY <3>3 DEF q
  <2> QED BY <2>7, <2>8, <2>9 DEF l
<1> QED BY <1>4, <1>5 DEF m, L

LEMMA NumbersOfLines ==
    ASSUME NEW l \in Strings, IsLength(l)
    PROVE  NumberIn(SubSeq(l, 4, Len(l))) \in Nat
<1> DEFINE q == SubSeq(l, 4, Len(l))
<1>1. Len(l) \in Nat /\ \A k \in 4 .. Len(l) : l[k] \in Digits
  BY DEF Strings, IsLength
<1>2. q \in Seq(Digits)
  BY <1>1 DEF Strings
<1> HIDE DEF q
<1>3. PICK t : AreValues(t, q)
  BY <1>2, ValuesExist
<1>4. NumberIn(q) \in Nat
  BY <1>2, <1>3, NumberIsLastValue
<1> QED BY <1>4 DEF q

LEMMA LengthsAreRead ==
    ASSUME NEW n \in Nat
    PROVE  /\ IsLength(Field("Content-Length", DecimalText(n)))
           /\ LengthAfter(Field("Content-Length", DecimalText(n))) = n
<1> DEFINE d == DecimalText(n)
           l == Field("Content-Length", d)
<1>1. d \in Seq(Digits) /\ NumberIn(d) = n
  BY NumbersAreRead
<1> HIDE DEF d
<1>2. Len(d) \in Nat
  BY <1>1
<1>3. Len(l) = Len(d) + 3 /\ l[1] = "Content-Length" /\ \A k \in 1 .. Len(d) : l[k + 3] = d[k]
  BY <1>1 DEF Field
<1>4. l \in Seq(Digits \cup {"Content-Length", ":", SP})
  BY <1>1 DEF Field
<1> HIDE DEF l
<1>5. \A k \in 4 .. Len(l) : l[k] \in Digits
  <2> SUFFICES ASSUME NEW k \in 4 .. Len(l) PROVE l[k] \in Digits
    OBVIOUS
  <2>1. k - 3 \in 1 .. Len(d) /\ (k - 3) + 3 = k
    BY <1>2, <1>3
  <2>2. l[k] = d[k - 3]
    BY <1>3, <2>1
  <2> QED BY <1>1, <2>1, <2>2
<1>6. IsLength(l)
  BY <1>3, <1>5 DEF IsLength
<1>7. SubSeq(l, 4, Len(l)) = d
  <2> DEFINE q == SubSeq(l, 4, Len(l))
  <2>1. q = [k \in 1 .. Len(d) |-> l[k + 3]]
    BY <1>2, <1>3, <1>4
  <2>2. \A k \in 1 .. Len(d) : l[k + 3] = d[k]
    BY <1>3
  <2>3. q = [k \in 1 .. Len(d) |-> d[k]]
    BY <2>1, <2>2, Zenon
  <2>4. d = [k \in 1 .. Len(d) |-> d[k]]
    BY <1>1
  <2> QED BY <2>3, <2>4
<1>8. LengthAfter(l) = n
  BY <1>1, <1>6, <1>7 DEF LengthAfter
<1> QED BY <1>6, <1>8 DEF l, d

LEMMA Parts ==
    ASSUME NEW text \in Strings, NEW at \in Nat, NEW n \in Nat, at + n <= Len(text)
    PROVE  /\ SubSeq(text, at + 1, at + n) \in Strings
           /\ Len(SubSeq(text, at + 1, at + n)) = n
           /\ \A k \in 1 .. n : SubSeq(text, at + 1, at + n)[k] = text[at + k]
<1> DEFINE q == SubSeq(text, at + 1, at + n)
<1>1. /\ (at + n) - (at + 1) + 1 = n
      /\ \A k \in 1 .. n : (at + 1) + k - 1 = at + k
      /\ at + 1 <= at + n <=> n # 0
  OBVIOUS
<1>2. \A i \in at + 1 .. at + n : text[i] \in Letters
  BY DEF Strings
<1> HIDE DEF q
<1>3. /\ q \in Seq(Letters)
      /\ Len(q) = IF at + 1 <= at + n THEN (at + n) - (at + 1) + 1 ELSE 0
      /\ \A k \in 1 .. (at + n) - (at + 1) + 1 : q[k] = text[(at + 1) + k - 1]
  BY <1>2, SubSeqProperties DEF q
<1> QED BY <1>1, <1>3 DEF q, Strings

LEMMA ReadLineStep ==
    ASSUME ResponseIInv, ReadLine
    PROVE  ResponseIInv'
<1>1. phase = "lines" /\ phase' = "lines"
      /\ UNCHANGED <<fieldInfo, body, oss, next, written, sent, stream, found>>
  BY DEF ReadLine, worker
<1>2. PICK e \in pos + 3 .. Len(stream) :
        /\ IsFirstEnd(e)
        /\ lines' = Append(lines, Line(e))
        /\ length' = LengthAfter(Line(e))
        /\ pos' = e
  BY DEF ReadLine
<1>3. ResponseTypeOK /\ WritesLines /\ SentLines /\ StreamHolds /\ ClientFollows
  BY DEF ResponseIInv
<1>4. /\ Len(sent) \in Nat /\ Len(found) \in Nat /\ Len(lines) \in Nat /\ Len(stream) \in Nat
      /\ pos \in Nat /\ length \in Nat /\ lines \in Seq(Strings) /\ stream \in Strings
      /\ AreResponses(found)
  BY <1>3, SentAndFound
<1> DEFINE l == Line(e)
<1>5. l \in Strings /\ Len(l) = e - 2 - pos
  <2> DEFINE z == e - 2 - pos
  <2>1. z \in Nat /\ pos + z = e - 2 /\ pos + z <= Len(stream)
    BY <1>4
  <2> HIDE DEF z
  <2>2. SubSeq(stream, pos + 1, pos + z) \in Strings /\ Len(SubSeq(stream, pos + 1, pos + z)) = z
    BY <1>4, <2>1, Parts
  <2>3. l = SubSeq(stream, pos + 1, pos + z)
    BY <2>1 DEF Line
  <2> QED BY <2>2, <2>3 DEF z
<1> HIDE DEF l
<1>6. /\ lines' = Append(lines, l) /\ length' = LengthAfter(l)
      /\ lines' \in Seq(Strings) /\ Len(lines') = Len(lines) + 1
      /\ lines'[Len(lines) + 1] = l /\ \A k \in 1 .. Len(lines) : lines'[k] = lines[k]
  BY <1>2, <1>4, <1>5 DEF l
<1>7. ResponseTypeOK'
  <2>1. length' \in Nat
    BY <1>4, <1>5, <1>6, NumbersOfLines DEF LengthAfter
  <2>2. pos' \in 0 .. Len(stream)
    BY <1>2, <1>4
  <2> QED BY <1>1, <1>3, <1>6, <2>1, <2>2 DEF ResponseTypeOK
<1>8. WritesLines' /\ SentLines' /\ StreamHolds'
  BY <1>1, <1>3 DEF WritesLines, SentLines, StreamHolds, Whole
<1>9. pos' = ReadSoFar'
  <2>1. After(lines', Len(lines) + 1) = After(lines, Len(lines)) + Len(l) + 2
    BY <1>4, <1>5, <1>6, AfterOneMore
  <2>2. pos = Total(found, Len(found)) + After(lines, Len(lines)) + 0
    BY <1>1, <1>3 DEF ClientFollows, ReadSoFar
  <2>3. ReadSoFar' = Total(found, Len(found)) + After(lines', Len(lines) + 1) + 0
    BY <1>1, <1>6 DEF ReadSoFar
  <2>4. Total(found, Len(found)) \in Nat
    BY <1>4, Totals
  <2>5. After(lines, Len(lines)) \in Nat
    BY <1>4, AfterLines
  <2> DEFINE t == Total(found, Len(found))
             a == After(lines, Len(lines))
             z == Len(l)
  <2>6. t \in Nat /\ a \in Nat /\ pos \in Nat /\ e \in Int
    BY <1>4, <2>4, <2>5
  <2>7. pos = t + a + 0 /\ pos' = e /\ z = e - 2 - pos
    BY <1>2, <1>5, <2>2
  <2>8. ReadSoFar' = t + (a + z + 2) + 0
    BY <2>1, <2>3
  <2> HIDE DEF t, a, z
  <2> QED BY <2>6, <2>7, <2>8
<1>10. ~(Whole(Len(sent)) /\ Len(found) >= Len(sent))
  <2>1. pos # Len(stream)
    BY <1>2, <1>4
  <2> QED BY <2>1, AllIsRead
<1>11. ASSUME NEW n \in DOMAIN sent, n = Len(found) + 1, Whole(n)
       PROVE  /\ Len(lines') <= Len(sent[n].lines)
              /\ \A k \in 1 .. Len(lines') : lines'[k] = sent[n].lines[k]
              /\ TellsLength(lines') => length' = Len(sent[n].data)
  <2> DEFINE L == sent[n].lines
             m == Len(lines)
             D == Len(sent[n].data)
  <2>1. L \in Seq(Strings) /\ Len(L) \in Nat /\ m <= Len(L) /\ \A k \in 1 .. m : lines[k] = L[k]
    BY <1>11, ClientIsAt
  <2>2. /\ m = Len(L) => e = pos + 2
        /\ m < Len(L) => l = L[m + 1]
    BY <1>1, <1>2, <1>11, FirstEnds DEF l
  <2>3. TellsLength(lines) => length = D
    BY <1>3, <1>11 DEF ClientFollows
  <2>4. \A k \in 1 .. Len(L) : IsLine(L[k], D)
    BY <1>3 DEF SentLines
  <2>5. D \in Nat
    <3>1. AreResponses(sent) /\ n \in 1 .. Len(sent)
      BY <1>3, SentAndFound
    <3>2. sent[n].data \in Seq(Letters)
      BY <3>1 DEF AreResponses, IsResponse, Strings
    <3> QED BY <3>2
  <2> HIDE DEF L, m, D
  <2>6. m \in Nat /\ m < Len(L)
    BY <1>2, <1>4, <2>1, <2>2 DEF m
  <2>7. l = L[m + 1] /\ m + 1 \in 1 .. Len(L)
    BY <2>1, <2>2, <2>6
  <2>8. Len(lines') = m + 1 /\ lines'[m + 1] = l /\ \A k \in 1 .. m : lines'[k] = lines[k]
    BY <1>6 DEF m
  <2>9. \A k \in 1 .. Len(lines') : lines'[k] = L[k]
    <3>1. \A k \in 1 .. m + 1 : k \in 1 .. m \/ k = m + 1
      BY <2>6
    <3> QED BY <2>1, <2>7, <2>8, <3>1
  <2>10. ASSUME TellsLength(lines') PROVE length' = D
    <3>1. CASE l[1] = "Content-Length"
      <4>1. l = Field("Content-Length", DecimalText(D))
        BY <2>4, <2>7, <3>1 DEF IsLine
      <4> QED BY <1>6, <2>5, <4>1, LengthsAreRead
    <3>2. CASE l[1] # "Content-Length"
      <4>1. length' = length
        BY <1>6, <3>2 DEF LengthAfter, IsLength
      <4>2. PICK k \in 1 .. Len(lines') : lines'[k][1] = "Content-Length"
        BY <2>10 DEF TellsLength
      <4>3. k \in 1 .. m /\ lines[k][1] = "Content-Length"
        <5>1. k # m + 1
          BY <2>8, <3>2, <4>2
        <5>2. k \in 1 .. m
          BY <2>6, <2>8, <5>1
        <5> QED BY <2>8, <4>2, <5>2
      <4>4. TellsLength(lines)
        BY <4>3 DEF TellsLength, m
      <4> QED BY <2>3, <4>1, <4>4
    <3> QED BY <3>1, <3>2
  <2>11. Len(lines') <= Len(L)
    BY <2>1, <2>6, <2>8
  <2> QED BY <2>9, <2>10, <2>11 DEF L, D
<1>12. ClientFollows'
  <2>1. \A n \in DOMAIN sent \cap DOMAIN found : Whole(n) => found[n] = Response(n)
    BY <1>3 DEF ClientFollows
  <2>2. \A n : Whole(n)' <=> Whole(n)
    BY <1>1 DEF Whole
  <2>3. \A n : Response(n)' = Response(n)
    BY <1>1 DEF Response
  <2> QED BY <1>1, <1>9, <1>10, <1>11, <2>1, <2>2, <2>3 DEF ClientFollows
<1> QED BY <1>7, <1>8, <1>12 DEF ResponseIInv

LEMMA ReadEmptyLineStep ==
    ASSUME ResponseIInv, ReadEmptyLine
    PROVE  ResponseIInv'
<1>1. /\ phase = "lines" /\ phase' = "data" /\ pos' = pos + 2 /\ IsFirstEnd(pos + 2)
      /\ UNCHANGED <<fieldInfo, body, oss, next, written, sent, stream, found, lines, length>>
  BY DEF ReadEmptyLine, worker
<1>2. ResponseTypeOK /\ WritesLines /\ SentLines /\ StreamHolds /\ ClientFollows
  BY DEF ResponseIInv
<1>3. /\ Len(sent) \in Nat /\ Len(found) \in Nat /\ Len(lines) \in Nat /\ Len(stream) \in Nat
      /\ pos \in Nat /\ lines \in Seq(Strings) /\ AreResponses(found)
  BY <1>2, SentAndFound
<1>4. pos + 2 \in 0 .. Len(stream) /\ pos # Len(stream)
  BY <1>1, <1>3 DEF IsFirstEnd
<1>5. ResponseTypeOK'
  BY <1>1, <1>2, <1>4 DEF ResponseTypeOK
<1>6. WritesLines' /\ SentLines' /\ StreamHolds'
  BY <1>1, <1>2 DEF WritesLines, SentLines, StreamHolds, Whole
<1>7. pos' = ReadSoFar'
  <2>1. pos = Total(found, Len(found)) + After(lines, Len(lines)) + 0
    BY <1>1, <1>2 DEF ClientFollows, ReadSoFar
  <2>2. ReadSoFar' = Total(found, Len(found)) + After(lines, Len(lines)) + 2
    BY <1>1 DEF ReadSoFar
  <2>3. Total(found, Len(found)) \in Nat
    BY <1>3, Totals
  <2>4. After(lines, Len(lines)) \in Nat
    BY <1>3, AfterLines
  <2> QED BY <1>1, <2>1, <2>2, <2>3, <2>4
<1>8. ~(Whole(Len(sent)) /\ Len(found) >= Len(sent))
  BY <1>4, AllIsRead
<1>9. ASSUME NEW n \in DOMAIN sent, n = Len(found) + 1, Whole(n)
      PROVE  Len(lines) = Len(sent[n].lines)
  <2>1. Len(sent[n].lines) \in Nat /\ Len(lines) <= Len(sent[n].lines)
    BY <1>9, ClientIsAt
  <2>2. ~(Len(lines) < Len(sent[n].lines))
    <3>1. Len(lines) < Len(sent[n].lines) => pos + 2 > pos + 2
      BY <1>1, <1>9, FirstEnds
    <3> QED BY <1>3, <3>1
  <2> QED BY <1>3, <2>1, <2>2
<1>10. ClientFollows'
  <2>1. \A n : Whole(n)' <=> Whole(n)
    BY <1>1 DEF Whole
  <2>2. \A n : Response(n)' = Response(n)
    BY <1>1 DEF Response
  <2> QED BY <1>1, <1>2, <1>7, <1>8, <1>9, <2>1, <2>2 DEF ClientFollows
<1> QED BY <1>5, <1>6, <1>10 DEF ResponseIInv

LEMMA ReadDataStep ==
    ASSUME ResponseIInv, ReadData
    PROVE  ResponseIInv'
<1> DEFINE d == SubSeq(stream, pos + 1, pos + length)
           r == [lines |-> lines, data |-> d]
<1>1. /\ phase = "data" /\ pos + length <= Len(stream)
      /\ found' = Append(found, r) /\ pos' = pos + length
      /\ phase' = "lines" /\ lines' = <<>> /\ length' = 0
      /\ UNCHANGED <<fieldInfo, body, oss, next, written, sent, stream>>
  BY DEF ReadData, worker
<1>2. ResponseTypeOK /\ WritesLines /\ SentLines /\ StreamHolds /\ ClientFollows
  BY DEF ResponseIInv
<1>3. /\ Len(sent) \in Nat /\ Len(found) \in Nat /\ Len(lines) \in Nat /\ Len(stream) \in Nat
      /\ pos \in Nat /\ length \in Nat /\ lines \in Seq(Strings) /\ stream \in Strings
      /\ AreResponses(found) /\ DOMAIN found = 1 .. Len(found)
  BY <1>2, SentAndFound
<1>4. d \in Strings /\ Len(d) = length /\ \A k \in 1 .. length : d[k] = stream[pos + k]
  BY <1>1, <1>3, Parts
<1> HIDE DEF d
<1>5. r \in [lines : Seq(Strings), data : Strings] /\ r.lines = lines /\ r.data = d
  BY <1>3, <1>4
<1> HIDE DEF r
<1>6. /\ found' \in Seq([lines : Seq(Strings), data : Strings])
      /\ Len(found') = Len(found) + 1 /\ found'[Len(found) + 1] = r
      /\ DOMAIN found' = 1 .. Len(found) + 1
      /\ \A k \in 1 .. Len(found) : found'[k] = found[k]
  <2>1. found \in Seq([lines : Seq(Strings), data : Strings])
    BY <1>2 DEF ResponseTypeOK
  <2> QED BY <1>1, <1>5, <2>1
<1>7. ResponseTypeOK'
  <2>1. pos' \in 0 .. Len(stream)
    BY <1>1, <1>3
  <2>2. lines' \in Seq(Strings)
    BY <1>1
  <2> QED BY <1>1, <1>2, <1>6, <2>1, <2>2 DEF ResponseTypeOK
<1>8. WritesLines' /\ SentLines' /\ StreamHolds'
  BY <1>1, <1>2 DEF WritesLines, SentLines, StreamHolds, Whole
<1>9. pos' = ReadSoFar'
  <2>1. pos = Total(found, Len(found)) + After(lines, Len(lines)) + 2
    BY <1>1, <1>2 DEF ClientFollows, ReadSoFar
  <2>2. ReadSoFar' = Total(found', Len(found) + 1) + After(<<>>, 0) + 0
    <3>1. Len(<<>>) = 0
      OBVIOUS
    <3> QED BY <1>1, <1>6, <3>1 DEF ReadSoFar
  <2>3. After(<<>>, 0) = 0
    BY NoLines
  <2>4. AreResponses(found')
    BY <1>6, AllAreResponses
  <2>5. Total(found', Len(found) + 1) = Total(found', Len(found)) + Size(r)
    <3>1. Len(found) + 1 \in 1 .. Len(found') /\ (Len(found) + 1) - 1 = Len(found)
      BY <1>3, <1>6
    <3> QED BY <1>6, <2>4, <3>1, Totals
  <2>6. Total(found', Len(found)) = Total(found, Len(found))
    <3>1. \A k \in 1 .. Len(found) : SameAs(found'[k], found[k])
      BY <1>6 DEF SameAs
    <3>2. Len(found) <= Len(found') /\ Len(found) <= Len(found)
      BY <1>3, <1>6
    <3> QED BY <1>3, <2>4, <3>1, <3>2, TotalOfSame
  <2>7. Size(r) = After(lines, Len(lines)) + 2 + length
    BY <1>4, <1>5 DEF Size
  <2>8. Total(found, Len(found)) \in Nat
    BY <1>3, Totals
  <2>9. After(lines, Len(lines)) \in Nat
    BY <1>3, AfterLines
  <2> DEFINE t == Total(found, Len(found))
             a == After(lines, Len(lines))
  <2>10. t \in Nat /\ a \in Nat /\ length \in Nat
    BY <1>3, <2>8, <2>9
  <2>11. pos = t + a + 2 /\ pos' = pos + length
    BY <1>1, <2>1
  <2>12. ReadSoFar' = t + (a + 2 + length) + 0 + 0
    BY <2>2, <2>3, <2>5, <2>6, <2>7
  <2> HIDE DEF t, a
  <2> QED BY <2>10, <2>11, <2>12
<1>10. ASSUME NEW n \in DOMAIN sent, n = Len(found) + 1, Whole(n)
       PROVE  r = Response(n)
  <2> DEFINE L == sent[n].lines
             D == sent[n].data
  <2>1. /\ L \in Seq(Strings) /\ Len(L) \in Nat /\ Len(lines) <= Len(L)
        /\ \A k \in 1 .. Len(lines) : lines[k] = L[k]
        /\ Len(lines) = Len(L) => AtData(pos - 2, D)
    BY <1>1, <1>10, ClientIsAt
  <2>2. Len(lines) = Len(L) /\ (TellsLength(lines) => length = Len(D))
    BY <1>1, <1>2, <1>10 DEF ClientFollows
  <2>3. TellsLength(L)
    BY <1>2 DEF SentLines
  <2> HIDE DEF L, D
  <2>4. lines = L
    BY <1>3, <2>1, <2>2
  <2>5. length = Len(D)
    BY <2>2, <2>3, <2>4
  <2>6. D \in Strings /\ \A k \in 1 .. Len(D) : stream[(pos - 2) + 2 + k] = D[k]
    BY <2>1, <2>2 DEF AtData
  <2>7. \A k \in 1 .. length : (pos - 2) + 2 + k = pos + k
    BY <1>3
  <2>8. \A k \in 1 .. length : d[k] = D[k]
    BY <1>4, <2>5, <2>6, <2>7
  <2>9. d = D
    <3>1. d \in Seq(Letters) /\ D \in Seq(Letters) /\ Len(d) = Len(D)
          /\ \A k \in 1 .. Len(d) : d[k] = D[k]
      BY <1>4, <2>5, <2>6, <2>8 DEF Strings
    <3> QED BY <3>1, SeqEqual
  <2> QED BY <2>4, <2>9 DEF r, Response, L, D
<1>11. ~(Whole(Len(sent)) /\ Len(found) >= Len(sent))
  <2>1. phase # "lines"
    BY <1>1
  <2> QED BY <2>1, AllIsRead
<1>12. ClientFollows'
  <2>1. \A n : Whole(n)' <=> Whole(n)
    BY <1>1 DEF Whole
  <2>2. \A n : Response(n)' = Response(n)
    BY <1>1 DEF Response
  <2>3. ASSUME NEW n \in DOMAIN sent' \cap DOMAIN found', Whole(n)'
        PROVE  found'[n] = Response(n)'
    <3>1. CASE n = Len(found) + 1
      BY <1>1, <1>6, <1>10, <2>1, <2>2, <2>3, <3>1
    <3>2. CASE n # Len(found) + 1
      <4>1. n \in 1 .. Len(found)
        BY <1>3, <1>6, <3>2
      <4> QED BY <1>1, <1>2, <1>3, <1>6, <2>1, <2>2, <2>3, <4>1 DEF ClientFollows
    <3> QED BY <3>1, <3>2
  <2>4. (Whole(Len(sent)) /\ Len(found) >= Len(sent))' =>
          Len(found)' = Len(sent)' /\ lines' = <<>> /\ phase' = "lines"
    <3> SUFFICES ASSUME Whole(Len(sent)), Len(found) + 1 >= Len(sent)
                 PROVE  Len(found) + 1 = Len(sent)
      BY <1>1, <1>6, <2>1
    <3> QED BY <1>3, <1>11
  <2>5. ~TellsLength(lines')
    BY <1>1 DEF TellsLength
  <2>6. ASSUME NEW n \in DOMAIN sent'
        PROVE  Len(lines') <= Len(sent'[n].lines)
    <3>1. AreResponses(sent) /\ n \in 1 .. Len(sent)
      BY <1>1, <1>2, <2>6, SentAndFound
    <3>2. sent[n].lines \in Seq(Strings)
      BY <3>1 DEF AreResponses, IsResponse
    <3> QED BY <1>1, <3>2
  <2>7. \A k \in 1 .. Len(lines') : FALSE
    BY <1>1
  <2>8. phase' # "data"
    BY <1>1
  <2> HIDE DEF TellsLength
  <2> QED BY <1>9, <2>3, <2>4, <2>5, <2>6, <2>7, <2>8 DEF ClientFollows
<1> QED BY <1>7, <1>8, <1>12 DEF ResponseIInv

LEMMA ResponseInitiallyHolds ==
    ASSUME ResponseInit
    PROVE  ResponseIInv
<1>1. /\ DOMAIN fieldInfo = {} /\ body = <<>> /\ oss = <<>> /\ next = 0 /\ written = <<>>
      /\ sent = <<>> /\ stream = <<>> /\ pos = 0 /\ phase = "lines" /\ lines = <<>>
      /\ length = 0 /\ found = <<>>
  BY DEF ResponseInit
<1>2. ResponseTypeOK
  <2>1. Len(stream) = 0 /\ 0 \in -1 .. Len(FieldNames) + 1
    BY <1>1, ResponsesAssumption
  <2> QED BY <1>1, <2>1 DEF ResponseTypeOK, Strings
<1>3. DOMAIN sent = {} /\ Len(sent) = 0 /\ Len(found) = 0 /\ Len(lines) = 0 /\ Len(stream) = 0
  BY <1>1
<1>4. After(lines, Len(lines)) = 0
  BY <1>1, NoLines
<1>5. Total(sent, 0) = 0 /\ Total(found, 0) = 0
  BY <1>2, SentAndFound, Totals
<1>6. Whole(Len(sent))
  BY <1>3 DEF Whole
<1>7. WritesLines /\ SentLines
  BY <1>1, <1>3 DEF WritesLines, SentLines
<1>8. StreamHolds
  BY <1>3, <1>5, <1>6 DEF StreamHolds
<1>9. pos = ReadSoFar
  <2>1. phase # "data"
    BY <1>1
  <2> QED BY <1>1, <1>3, <1>4, <1>5, <2>1 DEF ReadSoFar
<1>10. ClientFollows
  BY <1>1, <1>3, <1>9 DEF ClientFollows
<1> QED BY <1>2, <1>7, <1>8, <1>10 DEF ResponseIInv

LEMMA SendStep ==
    ASSUME ResponseIInv, Send
    PROVE  ResponseIInv'
<1> DEFINE text == ResponseText
           crlfData == <<CR, LF>> \o body
<1>1. /\ next = Len(FieldNames) + 1 /\ next' \in {-1, 0}
      /\ UNCHANGED <<fieldInfo, body, oss, written, pos, phase, lines, length, found>>
  BY DEF Send, client
<1>2. PICK taken \in 0 .. Len(text) :
        /\ stream' = stream \o SubSeq(text, 1, taken)
        /\ sent' = Append(sent, [lines |-> written, data |-> body, whole |-> taken = Len(text)])
  BY DEF Send
<1>3. ResponseTypeOK /\ WritesLines /\ SentLines /\ StreamHolds /\ ClientFollows
  BY DEF ResponseIInv
<1>4. /\ Len(sent) \in Nat /\ Len(found) \in Nat /\ Len(stream) \in Nat /\ stream \in Strings
      /\ AreResponses(sent) /\ DOMAIN sent = 1 .. Len(sent) /\ DOMAIN found = 1 .. Len(found)
      /\ pos \in Nat /\ pos <= Len(stream) /\ Len(lines) \in Nat
  BY <1>3, SentAndFound
<1>5. oss \in Strings /\ body \in Strings /\ written \in Seq(Strings)
  BY <1>3 DEF ResponseTypeOK
<1>6. Len(FieldNames) \in Nat /\ \E k \in 1 .. Len(FieldNames) : FieldNames[k] = "Content-Length"
  <2>1. "Content-Length" \in KnownNames /\ DOMAIN FieldNames = 1 .. Len(FieldNames)
    BY LettersAreThere, ResponsesAssumption
  <2> QED BY <2>1, ResponsesAssumption DEF KnownNames
<1>7. /\ \A k \in 1 .. Len(written) : IsLine(written[k], Len(body))
      /\ TellsLength(written)
      /\ HasLines(oss, 0, written)
      /\ Len(oss) = After(written, Len(written))
  <2>1. next > 0 /\ next - 1 = Len(FieldNames)
    BY <1>1, <1>6
  <2> QED BY <1>3, <1>6, <2>1 DEF WritesLines
<1>8. crlfData \in Strings /\ Len(crlfData) = 2 + Len(body) /\ Len(body) \in Nat /\ Len(oss) \in Nat
  <2>1. <<CR, LF>> \in Seq(Letters) /\ Len(<<CR, LF>>) = 2
    BY LettersAreThere
  <2> QED BY <1>5, <2>1 DEF Strings
<1>9. text = oss \o crlfData
  <2>1. <<CR, LF>> \in Seq(Letters)
    BY LettersAreThere
  <2>2. oss \in Seq(Letters) /\ body \in Seq(Letters)
    BY <1>5 DEF Strings
  <2>3. (oss \o <<CR, LF>>) \o body = oss \o (<<CR, LF>> \o body)
    BY <2>1, <2>2, ConcatAssociative
  <2> QED BY <2>3 DEF ResponseText, WithEnd
<1> HIDE DEF crlfData, text
<1>10. text \in Strings /\ Len(text) \in Nat /\ Len(text) = Len(oss) + 2 + Len(body)
  <2>1. text \in Strings /\ Len(text) \in Nat /\ Len(text) = Len(oss) + Len(crlfData)
    <3>1. oss \in Seq(Letters) /\ crlfData \in Seq(Letters)
      BY <1>5, <1>8 DEF Strings
    <3>2. text \in Seq(Letters) /\ Len(text) = Len(oss) + Len(crlfData)
      BY <1>9, <3>1, ConcatProperties
    <3> QED BY <3>2 DEF Strings
  <2>2. Len(oss) + (2 + Len(body)) = Len(oss) + 2 + Len(body)
    BY <1>8
  <2> QED BY <1>8, <2>1, <2>2
<1> DEFINE r == [lines |-> written, data |-> body, whole |-> taken = Len(text)]
           part == SubSeq(text, 1, taken)
<1> PICK n0 \in Nat : n0 = Len(sent)
  BY <1>4
<1>11. /\ r \in [lines : Seq(Strings), data : Strings, whole : BOOLEAN]
       /\ r.lines = written /\ r.data = body /\ (r.whole <=> taken = Len(text))
  BY <1>5
<1>12. Size(r) = Len(text)
  BY <1>7, <1>10, <1>11 DEF Size
<1>13. part \in Strings /\ Len(part) = taken
  <2>1. 0 \in Nat /\ taken \in Nat /\ 0 + taken <= Len(text) /\ 0 + taken = taken /\ 0 + 1 = 1
    BY <1>10
  <2>2. SubSeq(text, 0 + 1, 0 + taken) \in Strings /\ Len(SubSeq(text, 0 + 1, 0 + taken)) = taken
    BY <1>10, <2>1, Parts
  <2> QED BY <2>1, <2>2
<1>14. taken = Len(text) => part = text
  BY <1>10, SubSeqFull DEF Strings
<1> HIDE DEF r, part
<1>15. /\ sent' \in Seq([lines : Seq(Strings), data : Strings, whole : BOOLEAN])
       /\ Len(sent') = n0 + 1 /\ sent'[n0 + 1] = r /\ DOMAIN sent' = 1 .. n0 + 1
       /\ \A k \in 1 .. n0 : sent'[k] = sent[k]
  <2>1. sent \in Seq([lines : Seq(Strings), data : Strings, whole : BOOLEAN])
    BY <1>3 DEF ResponseTypeOK
  <2>2. sent' = Append(sent, r)
    BY <1>2 DEF r
  <2> QED BY <1>11, <2>1, <2>2
<1>16. stream' = stream \o part /\ stream' \in Strings /\ Len(stream') = Len(stream) + taken
  BY <1>2, <1>4, <1>13 DEF part, Strings
<1>17. n0 \in Nat /\ n0 = Len(sent) /\ taken \in Nat /\ taken <= Len(text)
  BY <1>4, <1>10
<1>18. ResponseTypeOK'
  <2>1. pos' \in 0 .. Len(stream') /\ next' \in -1 .. Len(FieldNames) + 1
    BY <1>1, <1>4, <1>6, <1>16, <1>17
  <2> QED BY <1>1, <1>3, <1>15, <1>16, <2>1 DEF ResponseTypeOK
<1>19. WritesLines'
  BY <1>1 DEF WritesLines
<1>20. SentLines'
  <2> SUFFICES ASSUME NEW n \in 1 .. n0 + 1
               PROVE  /\ \A k \in 1 .. Len(sent'[n].lines) :
                           IsLine(sent'[n].lines[k], Len(sent'[n].data))
                      /\ TellsLength(sent'[n].lines)
    BY <1>15 DEF SentLines
  <2>1. CASE n \in 1 .. n0
    BY <1>3, <1>4, <1>15, <1>17, <2>1 DEF SentLines
  <2>2. CASE n = n0 + 1
    BY <1>7, <1>11, <1>15, <2>2
  <2> QED BY <1>17, <2>1, <2>2
<1>21. /\ \A n \in 0 .. n0 : Whole(n)' <=> Whole(n)
       /\ Whole(n0 + 1)' <=> Whole(n0) /\ taken = Len(text)
  <2>1. \A n \in 0 .. n0 : \A k \in 1 .. n : k \in 1 .. n0
    BY <1>17
  <2>2. \A k \in 1 .. n0 + 1 : k \in 1 .. n0 \/ k = n0 + 1
    BY <1>17
  <2>3. n0 + 1 \in 1 .. n0 + 1 /\ 1 .. n0 \subseteq 1 .. n0 + 1
    BY <1>17
  <2>4. \A n \in 0 .. n0 : Whole(n)' <=> Whole(n)
    BY <1>15, <2>1 DEF Whole
  <2>5. Whole(n0 + 1)' <=> Whole(n0) /\ taken = Len(text)
    <3>1. Whole(n0 + 1)' <=> \A k \in 1 .. n0 + 1 : sent'[k].whole
      BY DEF Whole
    <3>2. Whole(n0) <=> \A k \in 1 .. n0 : sent'[k].whole
      BY <1>15 DEF Whole
    <3>3. sent'[n0 + 1].whole <=> taken = Len(text)
      BY <1>11, <1>15
    <3> QED BY <2>2, <2>3, <3>1, <3>2, <3>3, Zenon
  <2> QED BY <2>4, <2>5
<1>22. /\ \A n \in 0 .. n0 : Total(sent', n) = Total(sent, n)
       /\ Total(sent', n0 + 1) = Total(sent, n0) + Len(text)
       /\ Total(sent, n0) \in Nat
  <2>1. AreResponses(sent')
    BY <1>15, AllAreResponses
  <2>2. ASSUME NEW n \in 0 .. n0 PROVE Total(sent', n) = Total(sent, n)
    <3>1. \A k \in 1 .. n : SameAs(sent'[k], sent[k])
      <4>1. \A k \in 1 .. n : k \in 1 .. n0
        BY <1>17
      <4> QED BY <1>15, <4>1 DEF SameAs
    <3>2. n \in Nat /\ n <= Len(sent') /\ n <= Len(sent)
      BY <1>15, <1>17
    <3> QED BY <1>4, <2>1, <3>1, <3>2, TotalOfSame
  <2>3. n0 + 1 \in 1 .. Len(sent') /\ (n0 + 1) - 1 = n0 /\ n0 \in 0 .. n0
    BY <1>15, <1>17
  <2>4. Total(sent', n0 + 1) = Total(sent', n0) + Size(r)
    BY <1>15, <2>1, <2>3, Totals
  <2>5. Total(sent, n0) \in Nat
    BY <1>4, <1>17, <2>3, Totals
  <2> QED BY <1>12, <2>2, <2>3, <2>4, <2>5
<1>23. ASSUME NEW n \in 1 .. n0, Whole(n)
       PROVE  HasResponse(stream', Total(sent', n - 1), sent'[n])
  <2> DEFINE L == sent[n].lines
             D == sent[n].data
             base == Total(sent, n - 1)
  <2>1. L \in Seq(Strings) /\ D \in Strings
    BY <1>4, <1>17, <1>23 DEF AreResponses, IsResponse
  <2>2. n - 1 \in 0 .. n0 /\ n \in DOMAIN sent
    BY <1>4, <1>17
  <2>3. base \in Nat
    BY <1>4, <1>17, <2>2, Totals
  <2>4. After(L, Len(L)) \in Nat
    <3>1. Len(L) \in 0 .. Len(L)
      BY <2>1
    <3> QED BY <2>1, <3>1, AfterLines
  <2>5. HasLines(stream, base, L) /\ GoesOn(stream, base + After(L, Len(L)), <<CR, LF>> \o D)
    BY <1>3, <1>23, <2>2 DEF StreamHolds, HasResponse
  <2>6. <<CR, LF>> \o D \in Strings
    <3>1. <<CR, LF>> \in Seq(Letters)
      BY LettersAreThere
    <3> QED BY <2>1, <3>1 DEF Strings
  <2>7. base + After(L, Len(L)) \in Nat
    BY <2>3, <2>4
  <2>8. Total(sent', n - 1) = base /\ sent'[n] = sent[n]
    BY <1>15, <1>22, <2>2
  <2> HIDE DEF L, D, base
  <2>9. HasLines(stream', base, L)
    BY <1>4, <1>13, <1>16, <2>1, <2>3, <2>5, HasLinesInMore
  <2>10. GoesOn(stream', base + After(L, Len(L)), <<CR, LF>> \o D)
    BY <1>4, <1>13, <1>16, <2>5, <2>6, <2>7, GoesOnInMore
  <2> QED BY <2>8, <2>9, <2>10 DEF HasResponse, L, D
<1>24. ASSUME Whole(n0), taken = Len(text)
       PROVE  HasResponse(stream', Total(sent', n0), r)
  <2>1. part = text /\ Total(sent', n0) = Len(stream)
    <3>1. n0 \in 0 .. n0
      BY <1>17
    <3>2. Len(stream) = Total(sent, n0)
      BY <1>3, <1>17, <1>24 DEF StreamHolds
    <3> QED BY <1>14, <1>22, <1>24, <3>1, <3>2
  <2>2. HasLines(text, 0, written)
    BY <1>5, <1>7, <1>8, <1>9, HasLinesInMore
  <2>3. HasLines(stream', Len(stream), written)
    BY <1>4, <1>5, <1>10, <1>16, <2>1, <2>2, HasLinesBehind
  <2>4. GoesOn(text, Len(oss), crlfData)
    BY <1>5, <1>8, <1>9, GoesOnAtEnd
  <2>5. GoesOn(stream', Len(stream) + Len(oss), crlfData)
    BY <1>4, <1>8, <1>10, <1>16, <2>1, <2>4, GoesOnBehind
  <2> QED BY <1>7, <1>11, <2>1, <2>3, <2>5 DEF HasResponse, crlfData
<1>25. StreamHolds'
  <2>1. ASSUME NEW n \in 1 .. n0 + 1, Whole(n)'
        PROVE  HasResponse(stream', Total(sent', n - 1), sent'[n])
    <3>1. CASE n \in 1 .. n0
      <4>1. n \in 0 .. n0
        BY <3>1
      <4> QED BY <1>21, <1>23, <2>1, <3>1, <4>1
    <3>2. CASE n = n0 + 1
      <4>1. n - 1 = n0
        BY <1>17, <3>2
      <4>2. Whole(n0) /\ taken = Len(text)
        <5>1. Whole(n0 + 1)'
          BY <2>1, <3>2
        <5> QED BY <1>21, <5>1, Zenon
      <4>3. HasResponse(stream', Total(sent', n0), r)
        BY <1>24, <4>2, Zenon
      <4> QED BY <1>15, <3>2, <4>1, <4>3
    <3> QED BY <1>17, <3>1, <3>2
  <2>2. IF Whole(n0 + 1)' THEN Len(stream') = Total(sent', n0 + 1)
        ELSE Len(stream') < Total(sent', n0 + 1)
    <3> DEFINE t == Total(sent, n0)
               s == Len(stream)
               z == Len(text)
    <3>1. IF Whole(n0) THEN s = t ELSE s < t
      BY <1>3, <1>17 DEF StreamHolds
    <3>2. t \in Nat /\ s \in Nat /\ z \in Nat /\ taken \in Nat /\ taken <= z
      BY <1>4, <1>10, <1>17, <1>22
    <3>3. Len(stream') = s + taken /\ Total(sent', n0 + 1) = t + z
      BY <1>16, <1>22
    <3>4. Whole(n0 + 1)' <=> Whole(n0) /\ taken = z
      BY <1>21
    <3> HIDE DEF t, s, z
    <3>5. CASE Whole(n0)
      <4>1. s = t
        BY <3>1, <3>5
      <4>2. CASE taken = z
        <5>1. Whole(n0 + 1)'
          BY <3>4, <3>5, <4>2
        <5> QED BY <3>3, <4>1, <4>2, <5>1
      <4>3. CASE taken # z
        <5>1. ~Whole(n0 + 1)'
          BY <3>4, <4>3
        <5>2. s + taken < t + z
          BY <3>2, <4>1, <4>3
        <5> QED BY <3>3, <5>1, <5>2
      <4> QED BY <4>2, <4>3
    <3>6. CASE ~Whole(n0)
      <4>1. s < t
        BY <3>1, <3>6
      <4>2. ~Whole(n0 + 1)'
        BY <3>4, <3>6
      <4>3. s + taken < t + z
        BY <3>2, <4>1
      <4> QED BY <3>3, <4>2, <4>3
    <3> QED BY <3>5, <3>6
  <2> QED BY <1>15, <2>1, <2>2 DEF StreamHolds
<1>26. ~(Whole(n0) /\ Len(found) > n0)
  <2> SUFFICES ASSUME Whole(n0), Len(found) > n0 PROVE FALSE
    OBVIOUS
  <2>1. Whole(Len(sent))
    BY <1>17
  <2>2. Len(found) >= n0 /\ Len(found) # n0
    <3> PICK m \in Nat : m = Len(found)
      BY <1>4
    <3>1. m >= n0 /\ m # n0
      OBVIOUS
    <3> QED BY <3>1
  <2> QED BY <1>3, <1>17, <2>1, <2>2 DEF ClientFollows
<1>27. ClientFollows'
  <2>1. pos' = ReadSoFar'
    BY <1>1, <1>3 DEF ClientFollows, ReadSoFar
  <2>2. ASSUME NEW n \in 1 .. n0, n \in DOMAIN found, Whole(n)'
        PROVE  found[n] = Response(n)'
    <3>1. n \in 0 .. n0 /\ n \in DOMAIN sent
      BY <1>4, <1>17
    <3>2. found[n] = Response(n)
      BY <1>3, <1>21, <2>2, <3>1 DEF ClientFollows
    <3> QED BY <1>15, <3>2 DEF Response
  <2>3. \A n \in 1 .. n0 + 1 : n \in 1 .. n0 \/ n = n0 + 1
    BY <1>17
  <2>4. ~(Whole(n0 + 1)' /\ Len(found) >= n0 + 1)
    BY <1>4, <1>17, <1>21, <1>26
  <2>5. ~(Whole(n0 + 1)' /\ n0 + 1 \in DOMAIN found)
    BY <1>4, <1>17, <2>4
  <2>6. ASSUME NEW n \in 1 .. n0, n = Len(found) + 1, Whole(n)'
        PROVE  /\ Len(lines) <= Len(sent'[n].lines)
               /\ \A k \in 1 .. Len(lines) : lines[k] = sent'[n].lines[k]
               /\ phase = "data" => Len(lines) = Len(sent'[n].lines)
               /\ TellsLength(lines) => length = Len(sent'[n].data)
    <3>1. n \in 0 .. n0 /\ n \in DOMAIN sent
      BY <1>4, <1>17
    <3> QED BY <1>3, <1>15, <1>21, <2>6, <3>1 DEF ClientFollows
  <2>7. ASSUME n0 + 1 = Len(found) + 1, Whole(n0 + 1)'
        PROVE  /\ Len(lines) <= Len(sent'[n0 + 1].lines)
               /\ \A k \in 1 .. Len(lines) : FALSE
               /\ phase # "data"
               /\ ~TellsLength(lines)
    <3>1. Whole(Len(sent)) /\ Len(found) >= Len(sent)
      BY <1>4, <1>17, <1>21, <2>7
    <3>2. lines = <<>> /\ phase = "lines"
      BY <1>3, <3>1 DEF ClientFollows
    <3>3. Len(lines) = 0 /\ Len(sent'[n0 + 1].lines) \in Nat
      BY <1>5, <1>11, <1>15, <3>2
    <3>4. phase # "data"
      BY <3>2
    <3> QED BY <3>3, <3>4 DEF TellsLength
  <2> HIDE DEF TellsLength
  <2>8. \A n \in DOMAIN sent' \cap DOMAIN found : Whole(n)' => found[n] = Response(n)'
    <3> SUFFICES ASSUME NEW n \in DOMAIN sent' \cap DOMAIN found, Whole(n)'
                 PROVE  found[n] = Response(n)'
      OBVIOUS
    <3>1. n \in 1 .. n0 + 1
      BY <1>15
    <3>2. n # n0 + 1
      BY <2>5
    <3>3. n \in 1 .. n0
      BY <2>3, <3>1, <3>2
    <3> QED BY <2>2, <3>3
  <2>9. ~(Whole(Len(sent)) /\ Len(found) >= Len(sent))'
    BY <1>1, <1>15, <2>4
  <2>10. ASSUME NEW n \in DOMAIN sent', n = Len(found) + 1, Whole(n)'
         PROVE  /\ Len(lines) <= Len(sent'[n].lines)
                /\ \A k \in 1 .. Len(lines) : lines[k] = sent'[n].lines[k]
                /\ phase = "data" => Len(lines) = Len(sent'[n].lines)
                /\ TellsLength(lines) => length = Len(sent'[n].data)
    <3>1. n \in 1 .. n0 \/ n = n0 + 1
      BY <1>15, <2>3
    <3>2. CASE n \in 1 .. n0
      BY <2>6, <2>10, <3>2
    <3>3. CASE n = n0 + 1
      BY <2>7, <2>10, <3>3
    <3> QED BY <3>1, <3>2, <3>3
  <2> QED BY <1>1, <2>1, <2>8, <2>9, <2>10 DEF ClientFollows
<1> QED BY <1>18, <1>19, <1>20, <1>25, <1>27 DEF ResponseIInv

LEMMA ResponseStutter ==
    ASSUME ResponseIInv, UNCHANGED responseVars
    PROVE  ResponseIInv'
<1>1. UNCHANGED <<fieldInfo, body, oss, next, written, sent, stream, pos, phase, lines, length, found>>
  BY DEF responseVars, worker, client
<1> QED BY <1>1 DEF ResponseIInv, ResponseTypeOK, WritesLines, SentLines, StreamHolds, ClientFollows,
                    ReadSoFar, Whole, Response

LEMMA ReadsWhole ==
    ASSUME ResponseIInv
    PROVE  ReadsWholeResponses
<1>1. ResponseTypeOK /\ SentLines /\ StreamHolds /\ ClientFollows
  BY DEF ResponseIInv
<1>2. /\ Len(sent) \in Nat /\ Len(found) \in Nat /\ Len(lines) \in Nat /\ Len(stream) \in Nat
      /\ pos \in Nat /\ pos <= Len(stream) /\ AreResponses(sent) /\ AreResponses(found)
      /\ DOMAIN sent = 1 .. Len(sent) /\ lines \in Seq(Strings)
  BY <1>1, SentAndFound
<1>3. ASSUME NEW n \in DOMAIN sent \cap DOMAIN found, Whole(n)
      PROVE  found[n] = Response(n)
  BY <1>1, <1>3 DEF ClientFollows
<1>4. ASSUME Whole(Len(sent)), Len(found) >= Len(sent)
      PROVE  Len(found) = Len(sent) /\ pos = Len(stream) /\ lines = <<>> /\ ~CanRead
  <2>1. Len(found) = Len(sent) /\ lines = <<>> /\ phase = "lines" /\ pos = Len(stream)
    BY <1>4, AllIsRead
  <2>2. phase # "data" /\ \A e \in pos + 2 .. Len(stream) : FALSE
    BY <1>2, <2>1
  <2> QED BY <2>1, <2>2 DEF CanRead
<1>5. ASSUME Whole(Len(sent)), Len(found) < Len(sent)
      PROVE  CanRead
  <2> DEFINE n == Len(found) + 1
             L == sent[n].lines
             D == sent[n].data
             m == Len(lines)
  <2>1. n \in DOMAIN sent /\ n = Len(found) + 1 /\ \A k \in 1 .. n : k \in 1 .. Len(sent)
    BY <1>2, <1>5
  <2>2. Whole(n)
    BY <1>5, <2>1 DEF Whole
  <2> HIDE DEF n
  <2>3. /\ L \in Seq(Strings) /\ Len(L) \in Nat /\ m <= Len(L)
        /\ \A k \in 1 .. m : lines[k] = L[k]
        /\ m < Len(L) => phase = "lines" /\ AtLine(L[m + 1])
        /\ m = Len(L) /\ phase = "lines" => AtData(pos, D)
        /\ m = Len(L) /\ phase = "data" => AtData(pos - 2, D)
    BY <2>1, <2>2, ClientIsAt
  <2>4. TellsLength(L) /\ (TellsLength(lines) => length = Len(D))
    BY <1>1, <2>1, <2>2 DEF SentLines, ClientFollows
  <2> HIDE DEF L, D, m
  <2>5. CASE m < Len(L)
    <3> DEFINE z == Len(L[m + 1])
    <3>1. /\ phase = "lines" /\ z \in Nat /\ pos + z + 2 <= Len(stream)
          /\ stream[pos + z + 1] = CR /\ stream[pos + z + 2] = LF
      BY <2>3, <2>5 DEF AtLine
    <3> HIDE DEF z
    <3>2. pos + z + 2 \in pos + 2 .. Len(stream) /\ (pos + z + 2) - 1 = pos + z + 1
      BY <1>2, <3>1
    <3> QED BY <3>1, <3>2 DEF CanRead, IsCRLF
  <2>6. CASE m = Len(L) /\ phase = "lines"
    <3>1. Len(D) \in Nat /\ pos + 2 + Len(D) <= Len(stream) /\ stream[pos + 1] = CR /\ stream[pos + 2] = LF
      BY <2>3, <2>6 DEF AtData
    <3>2. pos + 2 \in pos + 2 .. Len(stream) /\ (pos + 2) - 1 = pos + 1
      BY <1>2, <3>1
    <3> QED BY <2>6, <3>1, <3>2 DEF CanRead, IsCRLF
  <2>7. CASE m = Len(L) /\ phase = "data"
    <3>1. Len(D) \in Nat /\ (pos - 2) + 2 + Len(D) <= Len(stream)
      BY <2>3, <2>7 DEF AtData
    <3>2. lines = L
      BY <1>2, <2>3, <2>7 DEF m
    <3>3. length = Len(D)
      BY <2>4, <3>2
    <3> QED BY <1>2, <2>7, <3>1, <3>3 DEF CanRead
  <2>8. m \in Nat /\ phase \in {"lines", "data"}
    BY <1>1, <1>2 DEF ResponseTypeOK, m
  <2> QED BY <2>3, <2>5, <2>6, <2>7, <2>8
<1>6. ASSUME ~Whole(Len(sent)), found = [n \in DOMAIN sent |-> Response(n)]
      PROVE  FALSE
  <2>1. Len(found) = Len(sent)
    <3> DEFINE a == Len(found)
               b == Len(sent)
    <3>1. DOMAIN found = 1 .. a /\ DOMAIN found = 1 .. b
      BY <1>1, <1>2, <1>6, SentAndFound
    <3>2. a \in Nat /\ b \in Nat
      BY <1>2
    <3> HIDE DEF a, b
    <3>3. \A x : x \in 1 .. a <=> x \in 1 .. b
      BY <3>1
    <3>4. a >= 1 => a <= b
      BY <3>2, <3>3
    <3>5. b >= 1 => b <= a
      BY <3>2, <3>3
    <3>6. a = b
      BY <3>2, <3>4, <3>5
    <3> QED BY <3>6 DEF a, b
  <2>2. \A k \in 1 .. Len(sent) : SameAs(found[k], sent[k])
    BY <1>2, <1>6 DEF Response, SameAs
  <2>3. Total(found, Len(found)) = Total(sent, Len(sent))
    BY <1>2, <2>1, <2>2, TotalOfSame
  <2> DEFINE t == Total(found, Len(found))
             a == After(lines, Len(lines))
             c == IF phase = "data" THEN 2 ELSE 0
  <2>4. t \in Nat /\ a \in Nat /\ c \in Nat
    BY <1>2, Totals, AfterLines
  <2>5. pos = t + a + c
    BY <1>1 DEF ClientFollows, ReadSoFar
  <2>6. Len(stream) < t
    BY <1>1, <1>6, <2>3 DEF StreamHolds
  <2> HIDE DEF t, a, c
  <2> QED BY <1>2, <2>4, <2>5, <2>6
<1>7. Whole(Len(sent)) => IF CanRead THEN Len(found) < Len(sent)
                          ELSE Len(found) = Len(sent) /\ pos = Len(stream) /\ lines = <<>>
  BY <1>2, <1>4, <1>5
<1> QED BY <1>3, <1>6, <1>7 DEF ReadsWholeResponses

\* Behind what the client has read lies what was sent and it has not, line by
\* line and to the end of the data, for as many responses as there are, as
\* long as send() has taken all of each; the stream has less than all as soon
\* as it has not (response.cpp:61-94, worker.cpp:62-64).
THEOREM ResponseInvariance == ResponseSpec => []ResponseIInv
<1>1. ResponseInit => ResponseIInv
  BY ResponseInitiallyHolds
<1>2. ResponseIInv /\ [ResponseNext]_responseVars => ResponseIInv'
  BY BeginResponseStep, WriteFieldStep, SendStep, ReadLineStep, ReadEmptyLineStep, ReadDataStep,
     ResponseStutter DEF ResponseNext
<1> QED BY <1>1, <1>2, PTL DEF ResponseSpec

\* A client that goes by Content-Length reads the responses that were sent, and
\* never all of them if send() has taken a part of one, whatever responders
\* return and whatever the data hold (response.cpp:61-94, worker.cpp:62-64).
THEOREM ResponsesAreRead == ResponseSpec => []ReadsWholeResponses
<1>1. ResponseIInv => ReadsWholeResponses
  BY ReadsWhole
<1> QED BY <1>1, ResponseInvariance, PTL
=============================================================================
